---- MODULE Spec2Model ----
(***************************************************************************)
(* CourtVision query engine: spec_from_dict, normalize_window,             *)
(* validate_spec and run_query of query_engine.py, over a prepared         *)
(* team-game row collection.                                               *)
(*                                                                         *)
(* Python strings that the code inspects character by character (window   *)
(* spellings, team abbreviations) are sequences of one-character strings.  *)
(* Strings the code only compares for equality (metric names, chart types, *)
(* entity, order) are TLA+ strings.                                        *)
(***************************************************************************)
EXTENDS Integers, Sequences, FiniteSets, TLC

VARIABLES rows, pc, d, spec, err, aggCalls, base, result, explanation, past, other,
          session, call

vars == <<rows, pc, d, spec, err, aggCalls, base, result, explanation, past, other,
          session, call>>

(***************************************************************************)
(* Bounds of the model.                                                    *)
(***************************************************************************)
\* largest N of a generated "LAST_N" window input
MaxN == 21
\* largest top_n value a dictionary carries
MaxTopN == 4
\* longest 'teams' list a dictionary carries
MaxTeamsLen == 3

(***************************************************************************)
(* str methods used by normalize_window and run_query.                     *)
(***************************************************************************)
LowerLetters ==
  <<"a","b","c","d","e","f","g","h","i","j","k","l","m",
    "n","o","p","q","r","s","t","u","v","w","x","y","z">>

UpperLetters ==
  <<"A","B","C","D","E","F","G","H","I","J","K","L","M",
    "N","O","P","Q","R","S","T","U","V","W","X","Y","Z">>

DigitChars == <<"0","1","2","3","4","5","6","7","8","9">>

IsLower(c) == \E i \in DOMAIN LowerLetters : LowerLetters[i] = c
IsUpper(c) == \E i \in DOMAIN UpperLetters : UpperLetters[i] = c
IsDigit(c) == \E i \in DOMAIN DigitChars : DigitChars[i] = c

UpperChar(c) ==
  IF IsLower(c)
    THEN UpperLetters[CHOOSE i \in DOMAIN LowerLetters : LowerLetters[i] = c]
    ELSE c

LowerChar(c) ==
  IF IsUpper(c)
    THEN LowerLetters[CHOOSE i \in DOMAIN UpperLetters : UpperLetters[i] = c]
    ELSE c

\* str.upper()
StrUpper(s) == [i \in DOMAIN s |-> UpperChar(s[i])]

\* str.lower()
StrLower(s) == [i \in DOMAIN s |-> LowerChar(s[i])]

\* str.replace(a, b) for one-character a and b
StrReplace(s, a, b) == [i \in DOMAIN s |-> IF s[i] = a THEN b ELSE s[i]]

\* str.strip(): leading and trailing whitespace removed
RECURSIVE StripLeft(_)
StripLeft(s) ==
  IF s # <<>> /\ Head(s) = " " THEN StripLeft(Tail(s)) ELSE s

RECURSIVE StripRight(_)
StripRight(s) ==
  IF s # <<>> /\ s[Len(s)] = " " THEN StripRight(SubSeq(s, 1, Len(s) - 1)) ELSE s

StrStrip(s) == StripRight(StripLeft(s))

\* str.startswith(p)
StartsWith(s, p) == Len(s) >= Len(p) /\ SubSeq(s, 1, Len(p)) = p

\* str.split(sep) for a one-character sep: the list of tokens, empty tokens kept
RECURSIVE StrSplitFrom(_, _, _)
StrSplitFrom(s, sep, cur) ==
  IF s = <<>> THEN <<cur>>
  ELSE IF Head(s) = sep
    THEN <<cur>> \o StrSplitFrom(Tail(s), sep, <<>>)
    ELSE StrSplitFrom(Tail(s), sep, Append(cur, Head(s)))

StrSplit(s, sep) == StrSplitFrom(s, sep, <<>>)

DigitValue(c) == (CHOOSE i \in DOMAIN DigitChars : DigitChars[i] = c) - 1

RECURSIVE DigitsValue(_, _)
DigitsValue(s, acc) ==
  IF s = <<>> THEN acc ELSE DigitsValue(Tail(s), 10 * acc + DigitValue(Head(s)))

\* int(tok) for a str: an optional sign followed by decimal digits; anything
\* else raises ValueError
PyIntOfStr(tok) ==
  LET signed == tok # <<>> /\ Head(tok) \in {"+", "-"}
      body   == IF signed THEN Tail(tok) ELSE tok
  IN IF body # <<>> /\ \A i \in DOMAIN body : IsDigit(body[i])
       THEN [ok |-> TRUE,
             val |-> IF signed /\ Head(tok) = "-"
                       THEN 0 - DigitsValue(body, 0) ELSE DigitsValue(body, 0)]
       ELSE [ok |-> FALSE, val |-> 0]

\* str(n) for a non-negative int
RECURSIVE PyStrOfNat(_)
PyStrOfNat(n) ==
  IF n < 10 THEN <<DigitChars[n + 1]>>
  ELSE Append(PyStrOfNat(n \div 10), DigitChars[(n % 10) + 1])

(***************************************************************************)
(* Python values. A dictionary value or ChartSpec field is a tagged        *)
(* record, so that None, a missing key, a str, an int, a float and a list  *)
(* stay distinct.                                                          *)
(***************************************************************************)
\* Python None
PyNone == [t |-> "None"]
\* the key is not in the dictionary
Absent == [t |-> "absent"]
\* a str: a TLA+ string where the code only compares it, a sequence of
\* characters where the code looks inside it
Str(x) == [t |-> "str", s |-> x]
\* an int
PyInt(k) == [t |-> "int", n |-> k]
\* a float with value h/2
PyFloat(h) == [t |-> "float", h |-> h]
\* a list
PyList(x) == [t |-> "list", l |-> x]

\* the outcome of a call: a returned value or a raised exception
Return(v) == [ok |-> TRUE, val |-> v]
Raise(kind, msg, arg) == [ok |-> FALSE, kind |-> kind, msg |-> msg, arg |-> arg]

\* DictGet that also gives the default for a key holding None
DictGet_default_for_none(dict, key, default) ==
  IF dict[key] \in {Absent, PyNone} THEN default ELSE dict[key]

\* dict.get(key, default)
DictGet(dict, key, default) == IF dict[key] = Absent THEN default ELSE dict[key]

\* bool(v) of None, a str compared as a whole, a list or an int
Truthy(v) ==
  CASE v.t = "None" -> FALSE
    [] v.t = "str" -> v.s # ""
    [] v.t = "list" -> v.l # <<>>
    [] v.t = "int" -> v.n # 0
    [] OTHER -> TRUE

(***************************************************************************)
(* query_engine.py constants.                                              *)
(***************************************************************************)
TEAM_METRICS_ALLOWLIST ==
  {"ORtg", "DRtg", "NET_RTG", "PACE", "PPG", "eFG", "TS", "AST_RATE", "TOV_RATE"}

WindowType == {"SEASON", "LAST_5", "LAST_10", "LAST_20"}

ChartType == {"leaderboard", "scatter", "compare"}

DEFAULTS ==
  [entity   |-> Str("team"),
   window   |-> Str(<<"S","E","A","S","O","N">>),
   top_n    |-> PyInt(10),
   x_metric |-> Str("ORtg"),
   y_metric |-> Str("DRtg"),
   metric   |-> Str("NET_RTG")]

\* the alias table of normalize_window
aliases ==
  <<[k |-> <<"S","E","A","S","O","N">>, v |-> "SEASON"],
    [k |-> <<"F","U","L","L","_","S","E","A","S","O","N">>, v |-> "SEASON"],
    [k |-> <<"Y","T","D">>, v |-> "SEASON"],
    [k |-> <<"L","A","S","T","5">>, v |-> "LAST_5"],
    [k |-> <<"L","A","S","T","_","5">>, v |-> "LAST_5"],
    [k |-> <<"L","5">>, v |-> "LAST_5"],
    [k |-> <<"L","A","S","T","_","F","I","V","E">>, v |-> "LAST_5"],
    [k |-> <<"L","A","S","T","1","0">>, v |-> "LAST_10"],
    [k |-> <<"L","A","S","T","_","1","0">>, v |-> "LAST_10"],
    [k |-> <<"L","1","0">>, v |-> "LAST_10"],
    [k |-> <<"L","A","S","T","_","T","E","N">>, v |-> "LAST_10"],
    [k |-> <<"L","A","S","T","2","0">>, v |-> "LAST_20"],
    [k |-> <<"L","A","S","T","_","2","0">>, v |-> "LAST_20"],
    [k |-> <<"L","2","0">>, v |-> "LAST_20"],
    [k |-> <<"L","A","S","T","_","T","W","E","N","T","Y">>, v |-> "LAST_20"]>>

\* NormalizedSpelling without the replacement of spaces
NormalizedSpelling_spaces_kept(raw) ==
  StrReplace(StrUpper(StrStrip(raw)), "-", "_")

\* the chained str calls of normalize_window: strip, upper, "-" and " " to "_"
NormalizedSpelling(raw) ==
  StrReplace(StrReplace(StrUpper(StrStrip(raw)), "-", "_"), " ", "_")

\* SnapLastN with the bucket limits exclusive
SnapLastN_exclusive(s) ==
  LET n == PyIntOfStr(StrSplit(s, "_")[2])
  IN IF ~n.ok THEN [ok |-> FALSE, val |-> ""]
     ELSE IF n.val < 5 THEN [ok |-> TRUE, val |-> "LAST_5"]
     ELSE IF n.val < 10 THEN [ok |-> TRUE, val |-> "LAST_10"]
     ELSE [ok |-> TRUE, val |-> "LAST_20"]

\* the "LAST_<n>" branch: int(s.split("_")[1]) and the snapping rule
SnapLastN(s) ==
  LET n == PyIntOfStr(StrSplit(s, "_")[2])
  IN IF ~n.ok THEN [ok |-> FALSE, val |-> ""]
     ELSE IF n.val <= 5 THEN [ok |-> TRUE, val |-> "LAST_5"]
     ELSE IF n.val <= 10 THEN [ok |-> TRUE, val |-> "LAST_10"]
     ELSE [ok |-> TRUE, val |-> "LAST_20"]

\* normalize_window falling back to SEASON where it should raise
normalize_window_defaulting(raw) ==
  IF raw = PyNone THEN Return("SEASON")
  ELSE
    LET s == NormalizedSpelling(raw.s)
        snapped == IF StartsWith(s, <<"L","A","S","T","_">>) THEN SnapLastN(s)
                   ELSE [ok |-> FALSE, val |-> ""]
    IN IF snapped.ok THEN Return(snapped.val)
       ELSE IF \E i \in DOMAIN aliases : aliases[i].k = s
         THEN Return(aliases[CHOOSE i \in DOMAIN aliases : aliases[i].k = s].v)
         ELSE Return("SEASON")

\* normalize_window(raw): raw is PyNone or a Str of characters
normalize_window(raw) ==
  IF raw = PyNone THEN Return("SEASON")
  ELSE
    LET s == NormalizedSpelling(raw.s)
        snapped == IF StartsWith(s, <<"L","A","S","T","_">>) THEN SnapLastN(s)
                   ELSE [ok |-> FALSE, val |-> ""]
    IN IF snapped.ok THEN Return(snapped.val)
       ELSE IF \E i \in DOMAIN aliases : aliases[i].k = s
         THEN Return(aliases[CHOOSE i \in DOMAIN aliases : aliases[i].k = s].v)
         ELSE Raise("ValueError", "Unsupported window", raw)

\* int(v): None and lists raise TypeError, a str is parsed after strip(), a
\* float is truncated toward zero
PyIntOf(v) ==
  CASE v.t = "int" -> Return(v.n)
    [] v.t = "float" ->
         Return(IF v.h >= 0 THEN v.h \div 2 ELSE 0 - ((0 - v.h) \div 2))
    [] v.t = "str" ->
         LET k == PyIntOfStr(StrStrip(v.s))
         IN IF k.ok THEN Return(k.val)
            ELSE Raise("ValueError", "invalid literal for int()", v)
    [] OTHER -> Raise("TypeError", "int() argument must be a string or a number", v)

(***************************************************************************)
(* ChartSpec: chart_type and window are plain strings (spec_from_dict      *)
(* only builds a ChartSpec from one of the three chart types and a         *)
(* normalized window); the other fields hold whatever the dictionary held. *)
(***************************************************************************)
ChartSpec(chart_type, entity, window, metric, top_n, order, x_metric, y_metric, teams) ==
  [chart_type |-> chart_type, entity |-> entity, window |-> window,
   metric |-> metric, top_n |-> top_n, order |-> order,
   x_metric |-> x_metric, y_metric |-> y_metric, teams |-> teams]

\* MetricAllowed comparing the names without regard to letter case
MetricAllowed_caseless(v) ==
  v.t = "str" /\ v.s \in (TEAM_METRICS_ALLOWLIST \cup {"ortg", "NET_rtg"})

\* spec.metric in TEAM_METRICS_ALLOWLIST

MetricAllowed(v) == v.t = "str" /\ v.s \in TEAM_METRICS_ALLOWLIST

\* validate_spec without the top_n check of a leaderboard
validate_spec_no_top_n(s) ==
  IF s.entity # Str("team")
    THEN Raise("ValueError", "v1 supports entity='team' only.", s.entity)
  ELSE IF s.window \notin WindowType
    THEN Raise("ValueError", "Unsupported window", s.window)
  ELSE IF s.chart_type = "leaderboard" /\ ~Truthy(s.metric)
    THEN Raise("ValueError", "Leaderboard requires 'metric'.", s.metric)
  ELSE IF s.chart_type = "leaderboard" /\ ~MetricAllowed(s.metric)
    THEN Raise("ValueError", "Unsupported metric", s.metric)
  ELSE IF s.chart_type = "scatter" /\ (~Truthy(s.x_metric) \/ ~Truthy(s.y_metric))
    THEN Raise("ValueError", "Scatter requires x_metric and y_metric.", PyNone)
  ELSE IF s.chart_type = "scatter"
          /\ (~MetricAllowed(s.x_metric) \/ ~MetricAllowed(s.y_metric))
    THEN Raise("ValueError", "Scatter uses unsupported metric(s).", PyNone)
  ELSE IF s.chart_type = "compare" /\ (~Truthy(s.teams) \/ Len(s.teams.l) < 2)
    THEN Raise("ValueError",
               "Compare requires at least two team abbreviations in 'teams'.", s.teams)
  ELSE Return(PyNone)

\* validate_spec that lets a compare of a single team through
validate_spec_one_team_enough(s) ==
  IF s.entity # Str("team")
    THEN Raise("ValueError", "v1 supports entity='team' only.", s.entity)
  ELSE IF s.window \notin WindowType
    THEN Raise("ValueError", "Unsupported window", s.window)
  ELSE IF s.chart_type = "leaderboard" /\ ~Truthy(s.metric)
    THEN Raise("ValueError", "Leaderboard requires 'metric'.", s.metric)
  ELSE IF s.chart_type = "leaderboard" /\ ~MetricAllowed(s.metric)
    THEN Raise("ValueError", "Unsupported metric", s.metric)
  ELSE IF s.chart_type = "leaderboard" /\ (s.top_n = PyNone \/ s.top_n.n <= 0)
    THEN Raise("ValueError", "Leaderboard requires top_n > 0.", s.top_n)
  ELSE IF s.chart_type = "scatter" /\ (~Truthy(s.x_metric) \/ ~Truthy(s.y_metric))
    THEN Raise("ValueError", "Scatter requires x_metric and y_metric.", PyNone)
  ELSE IF s.chart_type = "scatter"
          /\ (~MetricAllowed(s.x_metric) \/ ~MetricAllowed(s.y_metric))
    THEN Raise("ValueError", "Scatter uses unsupported metric(s).", PyNone)
  ELSE IF s.chart_type = "compare" /\ ~Truthy(s.teams)
    THEN Raise("ValueError",
               "Compare requires at least two team abbreviations in 'teams'.", s.teams)
  ELSE Return(PyNone)

\* validate_spec(spec): returns None or raises ValueError
validate_spec(s) ==
  IF s.entity # Str("team")
    THEN Raise("ValueError", "v1 supports entity='team' only.", s.entity)
  ELSE IF s.window \notin WindowType
    THEN Raise("ValueError", "Unsupported window", s.window)
  ELSE IF s.chart_type = "leaderboard" /\ ~Truthy(s.metric)
    THEN Raise("ValueError", "Leaderboard requires 'metric'.", s.metric)
  ELSE IF s.chart_type = "leaderboard" /\ ~MetricAllowed(s.metric)
    THEN Raise("ValueError", "Unsupported metric", s.metric)
  ELSE IF s.chart_type = "leaderboard" /\ (s.top_n = PyNone \/ s.top_n.n <= 0)
    THEN Raise("ValueError", "Leaderboard requires top_n > 0.", s.top_n)
  ELSE IF s.chart_type = "scatter" /\ (~Truthy(s.x_metric) \/ ~Truthy(s.y_metric))
    THEN Raise("ValueError", "Scatter requires x_metric and y_metric.", PyNone)
  ELSE IF s.chart_type = "scatter"
          /\ (~MetricAllowed(s.x_metric) \/ ~MetricAllowed(s.y_metric))
    THEN Raise("ValueError", "Scatter uses unsupported metric(s).", PyNone)
  ELSE IF s.chart_type = "compare" /\ (~Truthy(s.teams) \/ Len(s.teams.l) < 2)
    THEN Raise("ValueError",
               "Compare requires at least two team abbreviations in 'teams'.", s.teams)
  ELSE Return(PyNone)

\* the order spec_from_dict gives the spec: the dictionary's, or the default
OrderOf(dict, metric) ==
  IF dict.order # Absent THEN dict.order
  ELSE IF metric = Str("DRtg") THEN Str("asc") ELSE Str("desc")

\* spec_from_dict(d): returns a ChartSpec or raises
spec_from_dict(dict) ==
  LET chart_type == DictGet(dict, "chart_type", PyNone)
      entity     == DictGet(dict, "entity", DEFAULTS.entity)
      window     == normalize_window(DictGet(dict, "window", DEFAULTS.window))
      metric     == DictGet(dict, "metric", DEFAULTS.metric)
      top_n      == PyIntOf(DictGet(dict, "top_n", DEFAULTS.top_n))
      order      == OrderOf(dict, metric)
      x_metric   == DictGet(dict, "x_metric", DEFAULTS.x_metric)
      y_metric   == DictGet(dict, "y_metric", DEFAULTS.y_metric)
      teams      == DictGet(dict, "teams", PyNone)
  IN IF ~(chart_type.t = "str" /\ chart_type.s \in ChartType)
       THEN Raise("ValueError",
                  "chart_type must be one of: leaderboard, scatter, compare", chart_type)
     ELSE IF ~window.ok THEN window
     ELSE IF chart_type.s = "leaderboard"
       THEN IF ~top_n.ok THEN top_n
            ELSE Return(ChartSpec("leaderboard", entity, window.val, metric,
                                  PyInt(top_n.val), order, PyNone, PyNone, PyNone))
     ELSE IF chart_type.s = "scatter"
       THEN Return(ChartSpec("scatter", entity, window.val, PyNone, PyNone,
                             Str("desc"), x_metric, y_metric, PyNone))
     ELSE Return(ChartSpec("compare", entity, window.val, PyNone, PyNone,
                           Str("desc"), PyNone, PyNone, teams))

(***************************************************************************)
(* The prepared team-game rows (the output of                              *)
(* prepare_team_games_for_metrics): one row per team per game, carrying    *)
(* the team's box score and the points of its opponent in the same game.   *)
(* Team abbreviations are upper case, as the NBA feed delivers them.       *)
(***************************************************************************)
\* the abbreviations of the league, in alphabetical order
Abbrevs ==
  <<<<"B","O","S">>,
    <<"D","E","N">>,
    <<"G","S","W">>,
    <<"L","A","L">>,
    <<"M","I","A">>,
    <<"N","Y","K">>>>

\* an abbreviation no data set holds
NoSuchTeam == <<"S","E","A">>

\* teams of the generated schedule
NumTeams == 3
\* times each pair of teams meets
Rounds == 3
\* the row collections Init chooses from
NumDataSets == 4

\* the box score of team i against team j in round r of data set k
BoxScore(i, j, r, k) ==
  LET fga  == IF k = 3 /\ i = 1 THEN 0 ELSE 8 + ((i + 2 * j + r) % 4)
      fgm  == IF fga = 0 THEN 0 ELSE 3 + ((i * r + j) % 3)
      fg3m == IF fga = 0 THEN 0 ELSE (i + j + r) % 2
      fta  == IF k = 3 /\ i = 1 THEN 0 ELSE (i + r) % 3
      ftm  == IF fta = 0 THEN 0 ELSE 1
  IN [FGA |-> fga, FGM |-> fgm, FG3M |-> fg3m, FTA |-> fta,
      OREB |-> IF fga = 0 THEN 0 ELSE (j + r) % 2,
      TOV |-> IF k = 3 /\ i = 1 THEN 0 ELSE 1 + ((i + j) % 2),
      AST |-> IF fga = 0 THEN 0 ELSE 1 + ((i * j + r) % 3),
      PTS |-> 2 * fgm + fg3m + ftm]

\* the row of team i for its game against team j
TeamGameRow(i, j, r, k) ==
  LET own == BoxScore(i, j, r, k)
      opp == BoxScore(j, i, r, k)
      lo  == IF i < j THEN i ELSE j
      hi  == IF i < j THEN j ELSE i
  IN [TEAM_ABBREVIATION |-> Abbrevs[i],
      GAME_ID |-> 100 * r + 10 * lo + hi,
      GAME_DATE |-> 100 * r + 10 * lo + hi,
      PTS |-> own.PTS, OPP_PTS |-> opp.PTS,
      FGA |-> own.FGA, FGM |-> own.FGM, FG3M |-> own.FG3M, FTA |-> own.FTA,
      OREB |-> own.OREB, TOV |-> own.TOV, AST |-> own.AST]

\* the games of data set k: every pair meets once per round; in data set 2
\* the last team joined late and played the last round only; in data set 4
\* the last two teams met in the last round only
Played(i, j, r, k) ==
  /\ i # j
  /\ k = 2 => (r = Rounds \/ (i # NumTeams /\ j # NumTeams))
  /\ k = 4 => (r = Rounds \/ {i, j} # {NumTeams - 1, NumTeams})

RECURSIVE SeqOfSet(_)
SeqOfSet(S) ==
  IF S = {} THEN <<>>
  ELSE LET x == CHOOSE y \in S : TRUE IN <<x>> \o SeqOfSet(S \ {x})

DataSet(k) ==
  SeqOfSet({TeamGameRow(i, j, r, k) :
              <<i, j, r>> \in {<<a, b, c>> \in (1..NumTeams) \X (1..NumTeams) \X (1..Rounds) :
                                 Played(a, b, c, k)}})

(***************************************************************************)
(* The Window Filter and the three aggregation functions of metrics.py.    *)
(* A metric value is a ratio [num, den] of integers with den >= 0; a zero  *)
(* denominator is the missing value (NaN) a division by zero yields.       *)
(***************************************************************************)
\* the game count of a window; 0 stands for no restriction
WindowSize(window) ==
  CASE window = "LAST_5" -> 5
    [] window = "LAST_10" -> 10
    [] window = "LAST_20" -> 20
    [] OTHER -> 0

\* the rows of the window: each team's N most recent games by date
WindowFilter(rs, window) ==
  LET n == WindowSize(window)
      later(i) == Cardinality({j \in DOMAIN rs :
                     /\ rs[j].TEAM_ABBREVIATION = rs[i].TEAM_ABBREVIATION
                     /\ rs[j].GAME_DATE > rs[i].GAME_DATE})
  IN {rs[i] : i \in {j \in DOMAIN rs : n = 0 \/ later(j) < n}}

RECURSIVE SumOver(_, _)
SumOver(S, col) ==
  IF S = {} THEN 0
  ELSE LET x == CHOOSE y \in S : TRUE IN x[col] + SumOver(S \ {x}, col)

\* lexicographic order of two strings of upper-case letters
RECURSIVE StrLess(_, _)
StrLess(a, b) ==
  IF b = <<>> THEN FALSE
  ELSE IF a = <<>> THEN TRUE
  ELSE IF Head(a) = Head(b) THEN StrLess(Tail(a), Tail(b))
  ELSE (CHOOSE i \in DOMAIN UpperLetters : UpperLetters[i] = Head(a))
         < (CHOOSE i \in DOMAIN UpperLetters : UpperLetters[i] = Head(b))

\* the group keys in sorted order, as groupby delivers them
RECURSIVE SortedKeys(_)
SortedKeys(S) ==
  IF S = {} THEN <<>>
  ELSE LET m == CHOOSE x \in S : \A y \in S : x = y \/ StrLess(x, y)
       IN <<m>> \o SortedKeys(S \ {m})

Ratio(num, den) == [num |-> num, den |-> den]

\* possessions_est = FGA - OREB + TOV + 0.44 * FTA, times 25
Possessions25(g) == 25 * (SumOver(g, "FGA") - SumOver(g, "OREB") + SumOver(g, "TOV"))
                      + 11 * SumOver(g, "FTA")

\* the offense columns of one team over its windowed games g
OffenseColumns(g) ==
  [PPG      |-> Ratio(SumOver(g, "PTS"), Cardinality(g)),
   eFG      |-> Ratio(2 * SumOver(g, "FGM") + SumOver(g, "FG3M"), 2 * SumOver(g, "FGA")),
   TS       |-> Ratio(25 * SumOver(g, "PTS"),
                      2 * (25 * SumOver(g, "FGA") + 11 * SumOver(g, "FTA"))),
   AST_RATE |-> Ratio(25 * SumOver(g, "AST"), Possessions25(g)),
   TOV_RATE |-> Ratio(25 * SumOver(g, "TOV"), Possessions25(g))]

\* the rating columns of one team over its windowed games g
RatingColumns(g) ==
  [ORtg    |-> Ratio(2500 * SumOver(g, "PTS"), Possessions25(g)),
   DRtg    |-> Ratio(2500 * SumOver(g, "OPP_PTS"), Possessions25(g)),
   NET_RTG |-> Ratio(2500 * (SumOver(g, "PTS") - SumOver(g, "OPP_PTS")), Possessions25(g)),
   PACE    |-> Ratio(Possessions25(g), 25 * Cardinality(g))]

\* f @@ g for two records
Merge(f, g) == [x \in (DOMAIN f) \cup (DOMAIN g) |-> IF x \in DOMAIN f THEN f[x] ELSE g[x]]

CompleteColumns(g) == Merge(OffenseColumns(g), RatingColumns(g))

\* the columns of an aggregation shape
ShapeColumns(shape, g) ==
  CASE shape = "offense" -> OffenseColumns(g)
    [] shape = "with_defense" -> RatingColumns(g)
    [] shape = "complete" -> CompleteColumns(g)

\* group the windowed rows by team and attach the columns of the shape to
\* each group; a team without a game in the window has no group
Aggregate(rs, window, shape) ==
  LET kept == WindowFilter(rs, window)
      keys == SortedKeys({r.TEAM_ABBREVIATION : r \in kept})
      group(a) == {r \in kept : r.TEAM_ABBREVIATION = a}
  IN [i \in DOMAIN keys |->
        Merge([TEAM_ABBREVIATION |-> keys[i]], ShapeColumns(shape, group(keys[i])))]

aggregate_team_offense(rs, window) == Aggregate(rs, window, "offense")

aggregate_team_with_defense(rs, window) == Aggregate(rs, window, "with_defense")

aggregate_team_complete(rs, window) == Aggregate(rs, window, "complete")

(***************************************************************************)
(* pandas operations of run_query.                                         *)
(***************************************************************************)
IsNaN(x) == x.den = 0

\* x < y for two values that are not missing
RatioLess(x, y) == x.num * y.den < y.num * x.den

\* v goes before w in the sorted column
Before(v, w, ascending) == IF ascending THEN RatioLess(v, w) ELSE RatioLess(w, v)

\* insert row r behind every row that does not come after it
RECURSIVE InsertSorted(_, _, _, _)
InsertSorted(sorted, r, col, ascending) ==
  IF sorted = <<>> THEN <<r>>
  ELSE IF Before(r[col], Head(sorted)[col], ascending)
    THEN <<r>> \o sorted
    ELSE <<Head(sorted)>> \o InsertSorted(Tail(sorted), r, col, ascending)

RECURSIVE SortRows(_, _, _)
SortRows(tbl, col, ascending) ==
  IF tbl = <<>> THEN <<>>
  ELSE InsertSorted(SortRows(SubSeq(tbl, 1, Len(tbl) - 1), col, ascending),
                    tbl[Len(tbl)], col, ascending)

\* sort_values that puts the sorted values of the column into the rows as
\* they stand
sort_values_column_alone(tbl, col, ascending) ==
  LET sorted == SortRows(SelectSeq(tbl, LAMBDA r : ~IsNaN(r[col])), col, ascending)
                  \o SelectSeq(tbl, LAMBDA r : IsNaN(r[col]))
  IN [i \in DOMAIN tbl |-> [tbl[i] EXCEPT ![col] = sorted[i][col]]]

\* sort_values that sorts ascending with the missing values last and
\* reverses the table for a descending sort
sort_values_reversed_for_descending(tbl, col, ascending) ==
  LET up == SortRows(SelectSeq(tbl, LAMBDA r : ~IsNaN(r[col])), col, TRUE)
              \o SelectSeq(tbl, LAMBDA r : IsNaN(r[col]))
  IN IF ascending THEN up ELSE [i \in DOMAIN up |-> up[Len(up) + 1 - i]]

\* DataFrame.sort_values(col, ascending=ascending): missing values last
\* (na_position='last') in both directions, equal values in table order
sort_values(tbl, col, ascending) ==
  SortRows(SelectSeq(tbl, LAMBDA r : ~IsNaN(r[col])), col, ascending)
    \o SelectSeq(tbl, LAMBDA r : IsNaN(r[col]))

\* head that stops one row early
head_one_short(tbl, n) == SubSeq(tbl, 1, IF n - 1 < Len(tbl) THEN n - 1 ELSE Len(tbl))

\* DataFrame.head(n) for n >= 0
head(tbl, n) == SubSeq(tbl, 1, IF n < Len(tbl) THEN n ELSE Len(tbl))

\* RequestedTeams without the upper()
RequestedTeams_as_written(s) ==
  IF Truthy(s.teams) THEN {s.teams.l[i] : i \in DOMAIN s.teams.l} ELSE {}

\* set([t.upper() for t in (spec.teams or [])])
RequestedTeams(s) ==
  IF Truthy(s.teams) THEN {StrUpper(s.teams.l[i]) : i \in DOMAIN s.teams.l} ELSE {}

\* base[base["TEAM_ABBREVIATION"].isin(teams)]
isin_filter(tbl, teams) == SelectSeq(tbl, LAMBDA r : r.TEAM_ABBREVIATION \in teams)

\* TEAM_ID of a team: its place in the league list
TeamId(a) == CHOOSE i \in DOMAIN Abbrevs : Abbrevs[i] = a

\* row a goes before row b under sort_values(["TEAM_ID", "GAME_DATE"],
\* ascending=[True, False])
GameLogBefore(a, b) ==
  \/ TeamId(a.TEAM_ABBREVIATION) < TeamId(b.TEAM_ABBREVIATION)
  \/ /\ a.TEAM_ABBREVIATION = b.TEAM_ABBREVIATION
     /\ a.GAME_DATE > b.GAME_DATE

RECURSIVE InsertGame(_, _)
InsertGame(sorted, r) ==
  IF sorted = <<>> THEN <<r>>
  ELSE IF GameLogBefore(r, Head(sorted)) THEN <<r>> \o sorted
  ELSE <<Head(sorted)>> \o InsertGame(Tail(sorted), r)

RECURSIVE SortGameLog(_)
SortGameLog(rs) ==
  IF rs = <<>> THEN <<>>
  ELSE InsertGame(SortGameLog(SubSeq(rs, 1, Len(rs) - 1)), rs[Len(rs)])

\* groupby("TEAM_ID").head(n): the rows with fewer than n rows of their own
\* team before them
RECURSIVE GroupHead(_, _, _)
GroupHead(tbl, n, p) ==
  IF p > Len(tbl) THEN <<>>
  ELSE (IF Cardinality({q \in 1..(p - 1) :
                          tbl[q].TEAM_ABBREVIATION = tbl[p].TEAM_ABBREVIATION}) < n
          THEN <<tbl[p]>> ELSE <<>>)
       \o GroupHead(tbl, n, p + 1)

\* get_last_n_games with head(n) taken of the whole sorted table
get_last_n_games_whole_table(rs, n) == head(SortGameLog(rs), n)

\* get_last_n_games(season, n): rs is the game log of the season
get_last_n_games(rs, n) == GroupHead(SortGameLog(rs), n, 1)

RatingFamily == {"ORtg", "DRtg", "NET_RTG", "PACE"}

\* _build_explanation(spec): the parts joined by " | "
build_explanation(s) ==
  <<<<"Chart type", s.chart_type>>, <<"Entity", s.entity>>, <<"Window", s.window>>>>
  \o (IF s.chart_type = "leaderboard"
        THEN <<<<"Metric", s.metric, "sorted", s.order, "top_n", s.top_n>>>>
             \o (IF s.metric = Str("NET_RTG") THEN <<<<"NET_RTG = ORtg - DRtg">>>> ELSE <<>>)
             \o (IF s.metric.s \in RatingFamily
                   THEN <<<<"Ratings computed from opponent-paired games using estimated possessions.">>>>
                   ELSE <<<<"Metric computed from aggregated team box score totals over the window.">>>>)
        ELSE <<>>)
  \o (IF s.chart_type = "scatter"
        THEN <<<<"X", s.x_metric, "Y", s.y_metric>>,
               <<"Each point is one team aggregated over the selected window.">>>>
        ELSE <<>>)
  \o (IF s.chart_type = "compare"
        THEN <<<<"Teams", IF Truthy(s.teams) THEN s.teams.l ELSE <<>>>>,
               <<"Comparison uses the same metric definitions as leaderboards.">>>>
        ELSE <<>>)

\* AggregationFor that takes the complete aggregate for every query
AggregationFor_always_complete(s) == "aggregate_team_complete"

\* the aggregation function run_query calls for a spec, or the error of the
\* else branch
AggregationFor(s) ==
  IF s.chart_type = "scatter" THEN "aggregate_team_complete"
  ELSE IF s.chart_type = "compare" THEN "aggregate_team_complete"
  ELSE IF s.chart_type = "leaderboard"
    THEN IF s.metric.s \in RatingFamily THEN "aggregate_team_with_defense"
         ELSE "aggregate_team_complete"
  ELSE "Unhandled chart_type"

CallAggregation(fn, rs, window) ==
  CASE fn = "aggregate_team_complete" -> aggregate_team_complete(rs, window)
    [] fn = "aggregate_team_with_defense" -> aggregate_team_with_defense(rs, window)
    [] fn = "aggregate_team_offense" -> aggregate_team_offense(rs, window)

\* LeaderboardResult that sorts descending whatever the order
LeaderboardResult_descending(tbl, s) ==
  head(sort_values(tbl, s.metric.s, FALSE), s.top_n.n)

\* the leaderboard shaping: sort by the metric, keep the first top_n rows
LeaderboardResult(tbl, s) ==
  head(sort_values(tbl, s.metric.s, s.order = Str("asc")), s.top_n.n)

\* CompareResult that keeps the teams from the first to the last requested
CompareResult_range(tbl, s) ==
  SelectSeq(tbl, LAMBDA r :
    /\ \E a \in RequestedTeams(s) : a = r.TEAM_ABBREVIATION \/ StrLess(a, r.TEAM_ABBREVIATION)
    /\ \E b \in RequestedTeams(s) : b = r.TEAM_ABBREVIATION \/ StrLess(r.TEAM_ABBREVIATION, b))

\* the compare shaping: the rows of the requested teams
CompareResult(tbl, s) == isin_filter(tbl, RequestedTeams(s))

\* ShapeResult that drops the scatter rows without an x value
ShapeResult_scatter_dropna(tbl, s) ==
  IF s.chart_type = "leaderboard" THEN LeaderboardResult(tbl, s)
  ELSE IF s.chart_type = "scatter"
    THEN SelectSeq(tbl, LAMBDA r : ~IsNaN(r[s.x_metric.s]))
  ELSE CompareResult(tbl, s)

\* the chart-specific transformation of run_query
ShapeResult(tbl, s) ==
  IF s.chart_type = "leaderboard" THEN LeaderboardResult(tbl, s)
  ELSE IF s.chart_type = "scatter" THEN tbl
  ELSE CompareResult(tbl, s)

(***************************************************************************)
(* The inputs: the window spellings, the dictionaries.                     *)
(***************************************************************************)
Separators == {"_", "-", " "}

\* every separator of w written as c
Resep(w, c) == [i \in DOMAIN w |-> IF w[i] \in Separators THEN c ELSE w[i]]

\* "LAST_<n>" for n in 0..MaxN
LastNSpellings == {<<"L","A","S","T","_">> \o PyStrOfNat(n) : n \in 0..MaxN}

AliasSpellings == {aliases[i].k : i \in DOMAIN aliases}

OtherSpellings ==
  {<<"L","a","s","t"," ","T","e","n">>,
   <<"l","a","s","t"," ","1","0">>,
   <<"F","u","l","l","-","S","e","a","s","o","n">>,
   <<"L","A","S","T","_","-","3">>,
   <<"L","A","S","T","_","+","3">>,
   <<"L","A","S","T","_","1","_","5">>,
   <<"L","A","S","T","_","0","7">>,
   <<"l","a","s","t"," ","7"," ","g","a","m","e","s">>,
   <<>>,
   <<"L","A","S","T">>,
   <<"L","A","S","T","_">>,
   <<"L","A","S","T","_","X">>,
   <<"L","A","S","T","1","5">>,
   <<"L","A","S","T","_","5","X">>,
   <<"1","0">>,
   <<"S","E","A","S","O","N","S">>,
   <<"L","1","5">>,
   <<"F","O","O"," ","B","A","R">>,
   <<" ","S","E","A","S","O","N"," ">>,
   <<"L","A","S","T","_","1","0"," ">>,
   <<" ","l","1","0">>}

BaseSpellings == AliasSpellings \cup LastNSpellings \cup OtherSpellings

\* each base spelling as written, in upper and in lower case, with its
\* separators as written or all written as one of the three
WindowSpellings ==
  LET cased == BaseSpellings \cup {StrUpper(w) : w \in BaseSpellings}
                 \cup {StrLower(w) : w \in BaseSpellings}
  IN cased \cup {Resep(w, c) : w \in cased, c \in Separators}

MetricInputs ==
  {Absent, PyNone, Str(""), Str("ortg"), Str("NET_rtg"), Str("FAKE_METRIC")}
    \cup {Str(m) : m \in TEAM_METRICS_ALLOWLIST}

TopNInputs ==
  {Absent, PyNone, PyFloat(5), PyFloat(1), Str(<<"3">>), Str(<<"a","b","c">>)}
    \cup {PyInt(k) : k \in (0 - 1)..MaxTopN}

OrderInputs == {Absent, Str("asc"), Str("desc"), Str("ascending")}

\* the abbreviations a 'teams' list is made of
TeamInputs ==
  {Abbrevs[1], StrLower(Abbrevs[1]), Abbrevs[2], Abbrevs[NumTeams], NoSuchTeam}

RECURSIVE ListsUpTo(_, _)
ListsUpTo(S, n) ==
  IF n = 0 THEN {<<>>}
  ELSE LET shorter == ListsUpTo(S, n - 1)
       IN shorter \cup {Append(l, x) : l \in {m \in shorter : Len(m) = n - 1}, x \in S}

\* a second abbreviation no row carries
NoSuchTeamEither == <<"V","A","N">>

TeamsInputs ==
  {Absent, PyNone, PyList(<<NoSuchTeam, NoSuchTeamEither>>)}
    \cup {PyList(l) : l \in ListsUpTo(TeamInputs, MaxTeamsLen)}

Dict(chart_type, entity, window, metric, top_n, order, x_metric, y_metric, teams) ==
  [chart_type |-> chart_type, entity |-> entity, window |-> window,
   metric |-> metric, top_n |-> top_n, order |-> order,
   x_metric |-> x_metric, y_metric |-> y_metric, teams |-> teams]

\* a few windows for the dictionaries that vary other fields
FewWindows == {Absent, Str(<<"l","a","s","t"," ","5">>), Str(<<"b","o","g","u","s">>)}

\* scatter dictionaries over every window spelling, None and no window
WindowDicts ==
  {Dict(Str("scatter"), Absent, w, Absent, Absent, Absent, Absent, Absent, Absent) :
     w \in {Absent, PyNone} \cup {Str(x) : x \in WindowSpellings}}

LeaderboardDicts ==
  {Dict(Str("leaderboard"), Absent, w, m, n, o, Absent, Absent, Absent) :
     w \in FewWindows \ {Str(<<"b","o","g","u","s">>)}, m \in MetricInputs, n \in TopNInputs, o \in OrderInputs}
  \cup
  {Dict(Str("leaderboard"), e, w, m, n, Absent, Str("FAKE_METRIC"), Absent, PyNone) :
     e \in {Str("team"), Str("player")}, w \in FewWindows \cup {PyNone},
     m \in {Absent, Str("DRtg"), Str("FAKE_METRIC")}, n \in {Absent, PyInt(0), PyInt(2)}}

ScatterDicts ==
  {Dict(Str("scatter"), e, w, Str("FAKE_METRIC"), PyInt(0), Absent, x, y, Absent) :
     e \in {Absent, Str("player")}, w \in FewWindows \ {Str(<<"b","o","g","u","s">>)},
     x \in MetricInputs, y \in MetricInputs}

CompareDicts ==
  {Dict(Str("compare"), e, w, Absent, Absent, Absent, Absent, Absent, tm) :
     e \in {Absent, Str("player")}, w \in FewWindows \ {Str(<<"b","o","g","u","s">>)}, tm \in TeamsInputs}

OtherDicts ==
  {Dict(c, Absent, w, Absent, Absent, Absent, Absent, Absent, Absent) :
     c \in {Absent, PyNone, Str("pie"), Str("Leaderboard")}, w \in FewWindows}

DictInputs == WindowDicts \cup LeaderboardDicts \cup ScatterDicts \cup CompareDicts \cup OtherDicts

(***************************************************************************)
(* The state machine: a caller builds a spec from a dictionary and runs    *)
(* the query (execute_query, test_query.py); pc is the position inside     *)
(* that sequence.                                                          *)
(*   idle       no query under way                                         *)
(*   built      spec_from_dict returned the ChartSpec in spec              *)
(*   validated  run_query passed validate_spec and built the explanation   *)
(*   aggregated run_query computed the aggregate table in base             *)
(*   done       run_query returned (result, explanation)                   *)
(*   failed     spec_from_dict or run_query raised err                     *)
(* past holds the outcomes of the queries a caller ran earlier and kept,   *)
(* other a second run_query invocation against the same rows; both stay    *)
(* as Init leaves them unless the caller repeats or overlaps queries.      *)
(* session is st.session_state of the Streamlit app, call the arguments    *)
(* and the return value of the execute_ai_query call under way; both stay  *)
(* as Init leaves them outside the app.                                    *)
(***************************************************************************)
NoError == [ok |-> TRUE, val |-> PyNone]

\* a bool
PyBool(b) == [t |-> "bool", b |-> b]

\* st.session_state before any query: none of the keys is set
NoSession ==
  [result_df |-> Absent, spec |-> Absent, explanation |-> Absent, query_dict |-> Absent,
   selected_season |-> Absent, query_ran |-> Absent, error |-> Absent]

\* no execute_ai_query call under way
NotAsked == [requested_season |-> PyNone, current_season |-> PyNone, returned |-> PyNone]

\* a run_query invocation that has not been made: its position, its spec
\* argument, its locals and what it returned or raised
NotCalled ==
  [pc |-> "idle", spec |-> PyNone, err |-> NoError, base |-> <<>>,
   result |-> PyNone, explanation |-> PyNone]

Init ==
  /\ rows \in {DataSet(k) : k \in 1..NumDataSets}
  /\ pc = "idle"
  /\ d = PyNone
  /\ spec = PyNone
  /\ err = NoError
  /\ aggCalls = <<>>
  /\ base = <<>>
  /\ result = PyNone
  /\ explanation = PyNone
  /\ past = {}
  /\ other = NotCalled
  /\ session = NoSession
  /\ call = NotAsked

\* spec = spec_from_dict(query_dict)
SpecFromDict(dict) ==
  /\ pc = "idle"
  /\ d' = dict
  /\ LET out == spec_from_dict(dict)
     IN IF out.ok
          THEN /\ spec' = out.val
               /\ pc' = "built"
               /\ err' = err
          ELSE /\ spec' = spec
               /\ pc' = "failed"
               /\ err' = out
  /\ UNCHANGED <<rows, aggCalls, base, result, explanation, past, other, session, call>>

\* run_query that goes on to aggregate whatever validate_spec says
RunQueryValidate_no_fail_fast ==
  /\ pc = "built"
  /\ pc' = "validated"
  /\ UNCHANGED <<rows, d, spec, err, aggCalls, base, result, explanation, past, other, session, call>>

\* run_query: validate_spec(spec); explanation = _build_explanation(spec)
RunQueryValidate ==
  /\ pc = "built"
  /\ LET v == validate_spec(spec)
     IN IF v.ok
          THEN /\ pc' = "validated"
               /\ explanation' = build_explanation(spec)
               /\ err' = err
          ELSE /\ pc' = "failed"
               /\ explanation' = explanation
               /\ err' = v
  /\ UNCHANGED <<rows, d, spec, aggCalls, base, result, past, other, session, call>>

\* RunQueryAggregate that cuts the caller's rows down to the window first
RunQueryAggregate_windows_in_place ==
  /\ pc = "validated"
  /\ LET fn == AggregationFor(spec)
     IN IF fn = "Unhandled chart_type"
          THEN /\ pc' = "failed"
               /\ err' = Raise("ValueError", "Unhandled chart_type", Str(spec.chart_type))
               /\ UNCHANGED <<rows, aggCalls, base>>
          ELSE /\ pc' = "aggregated"
               /\ err' = err
               /\ aggCalls' = Append(aggCalls, [fn |-> fn, window |-> spec.window])
               /\ rows' = SeqOfSet(WindowFilter(rows, spec.window))
               /\ base' = CallAggregation(fn, rows', spec.window)
  /\ UNCHANGED <<d, spec, result, explanation, past, other, session, call>>

\* RunQueryAggregate that takes the aggregate an earlier query left behind
\* when it has the columns wanted, whatever its window
RunQueryAggregate_reuses_base ==
  /\ pc = "validated"
  /\ LET fn == AggregationFor(spec)
     IN IF fn = "Unhandled chart_type"
          THEN /\ pc' = "failed"
               /\ err' = Raise("ValueError", "Unhandled chart_type", Str(spec.chart_type))
               /\ UNCHANGED <<aggCalls, base>>
          ELSE /\ pc' = "aggregated"
               /\ err' = err
               /\ aggCalls' = Append(aggCalls, [fn |-> fn, window |-> spec.window])
               /\ base' = IF /\ base # <<>>
                               /\ ("PPG" \in DOMAIN base[1]) = (fn = "aggregate_team_complete")
                            THEN base
                            ELSE CallAggregation(fn, rows, spec.window)
  /\ UNCHANGED <<rows, d, spec, result, explanation, past, other, session, call>>

\* run_query: base = aggregate_team_...(df_team_games_prepared, spec.window),
\* or the ValueError of the else branch
RunQueryAggregate ==
  /\ pc = "validated"
  /\ LET fn == AggregationFor(spec)
     IN IF fn = "Unhandled chart_type"
          THEN /\ pc' = "failed"
               /\ err' = Raise("ValueError", "Unhandled chart_type", Str(spec.chart_type))
               /\ UNCHANGED <<aggCalls, base>>
          ELSE /\ pc' = "aggregated"
               /\ err' = err
               /\ aggCalls' = Append(aggCalls, [fn |-> fn, window |-> spec.window])
               /\ base' = CallAggregation(fn, rows, spec.window)
  /\ UNCHANGED <<rows, d, spec, result, explanation, past, other, session, call>>

\* RunQueryShape that raises when the result has no row
RunQueryShape_empty_raises ==
  /\ pc = "aggregated"
  /\ IF ShapeResult(base, spec) = <<>>
       THEN /\ pc' = "failed"
            /\ err' = Raise("ValueError", "No rows", PyNone)
            /\ result' = result
       ELSE /\ pc' = "done"
            /\ err' = err
            /\ result' = PyList(ShapeResult(base, spec))
  /\ UNCHANGED <<rows, d, spec, aggCalls, base, explanation, past, other, session, call>>

\* run_query: the chart-specific transformation and the return
RunQueryShape ==
  /\ pc = "aggregated"
  /\ result' = PyList(ShapeResult(base, spec))
  /\ pc' = "done"
  /\ UNCHANGED <<rows, d, spec, err, aggCalls, base, explanation, past, other, session, call>>

\* the caller is back and may issue the next query
NextQuery ==
  /\ pc \in {"done", "failed"}
  /\ pc' = "idle"
  /\ d' = PyNone
  /\ spec' = PyNone
  /\ err' = NoError
  /\ aggCalls' = <<>>
  /\ base' = <<>>
  /\ result' = PyNone
  /\ explanation' = PyNone
  /\ UNCHANGED <<rows, past, other, session, call>>

Next ==
  \/ \E dict \in DictInputs : SpecFromDict(dict)
  \/ RunQueryValidate
  \/ RunQueryAggregate
  \/ RunQueryShape
  \/ NextQuery

Spec == Init /\ [][Next]_vars

(***************************************************************************)
(* A caller that constructs the ChartSpec itself (test_logos.py) instead   *)
(* of going through spec_from_dict: the dataclass checks nothing, so any   *)
(* chart_type, entity and window can be in the spec handed to run_query.   *)
(***************************************************************************)
\* ChartSpec(chart_type=c, entity=e, window=w) with the other fields at the
\* dataclass defaults
ChartSpecOf(c, e, w) ==
  ChartSpec(c, e, w, PyNone, PyNone, Str("desc"), PyNone, PyNone, PyNone)

DirectSpecs ==
  LET entities == {Str("team"), Str("player")}
      windows  == {"SEASON", "LAST_5", "LAST_7"}
  IN {[ChartSpecOf("leaderboard", e, w) EXCEPT !.metric = m, !.top_n = n, !.order = o] :
        e \in entities, w \in windows,
        m \in {PyNone, Str("NET_RTG"), Str("PPG"), Str("FAKE_METRIC")},
        n \in {PyNone, PyInt(0), PyInt(2)}, o \in {Str("asc"), Str("desc")}}
     \cup
     {[ChartSpecOf("scatter", e, w) EXCEPT !.x_metric = x, !.y_metric = y] :
        e \in entities, w \in windows,
        x \in {PyNone, Str("ORtg"), Str("eFG")}, y \in {PyNone, Str("DRtg"), Str("ts")}}
     \cup
     {[ChartSpecOf("compare", e, w) EXCEPT !.teams = tm] :
        e \in entities, w \in windows, tm \in TeamsInputs \ {Absent}}
     \cup
     {[ChartSpecOf(c, e, w) EXCEPT !.metric = m, !.top_n = n] :
        c \in {"pie", "Leaderboard"}, e \in entities, w \in windows,
        m \in {PyNone, Str("NET_RTG")}, n \in {PyNone, PyInt(2)}}

\* spec = ChartSpec(...)
ConstructChartSpec(s) ==
  /\ pc = "idle"
  /\ spec' = s
  /\ pc' = "built"
  /\ UNCHANGED <<rows, d, err, aggCalls, base, result, explanation, past, other, session, call>>

NextDirect ==
  \/ \E s \in DirectSpecs : ConstructChartSpec(s)
  \/ RunQueryValidate
  \/ RunQueryAggregate
  \/ RunQueryShape
  \/ NextQuery

SpecDirect == Init /\ [][NextDirect]_vars

(***************************************************************************)
(* A caller that runs query after query against the same rows and keeps    *)
(* what each one gave (execute_query keeps result_df, explanation and      *)
(* error in st.session_state): nothing is cleared between two queries, and *)
(* past records every outcome.                                             *)
(***************************************************************************)
RepeatSpecs ==
  {[ChartSpecOf("leaderboard", Str("team"), "SEASON") EXCEPT
      !.metric = Str("NET_RTG"), !.top_n = PyInt(2)],
   [ChartSpecOf("leaderboard", Str("team"), "SEASON") EXCEPT
      !.metric = Str("PACE"), !.top_n = PyInt(NumTeams), !.order = Str("asc")],
   [ChartSpecOf("leaderboard", Str("team"), "SEASON") EXCEPT
      !.metric = Str("FAKE_METRIC"), !.top_n = PyInt(2)],
   [ChartSpecOf("scatter", Str("team"), "LAST_5") EXCEPT
      !.x_metric = Str("ORtg"), !.y_metric = Str("DRtg")],
   [ChartSpecOf("compare", Str("team"), "SEASON") EXCEPT
      !.teams = PyList(<<StrLower(Abbrevs[1]), Abbrevs[2]>>)],
   ChartSpecOf("pie", Str("team"), "SEASON")}

\* what the query under way returned, or what it raised
Outcome ==
  IF pc = "done"
    THEN [ok |-> TRUE, result |-> result, explanation |-> explanation]
    ELSE [ok |-> FALSE, err |-> err]

\* the caller takes the outcome and is free to run the next query
KeepOutcome ==
  /\ pc \in {"done", "failed"}
  /\ past' = past \cup {[spec |-> spec, outcome |-> Outcome]}
  /\ pc' = "idle"
  /\ aggCalls' = <<>>
  /\ UNCHANGED <<rows, d, spec, err, base, result, explanation, other, session, call>>

NextRepeat ==
  \/ \E s \in RepeatSpecs : ConstructChartSpec(s)
  \/ RunQueryValidate
  \/ RunQueryAggregate
  \/ RunQueryShape
  \/ KeepOutcome

SpecRepeat == Init /\ [][NextRepeat]_vars

(***************************************************************************)
(* Two run_query invocations against the same rows, their steps            *)
(* interleaved in any order. The second invocation is the record other:    *)
(* its steps are those of the first, on its own spec and locals.           *)
(***************************************************************************)
\* run_query(df_team_games_prepared, spec) as one call: what it returns or
\* raises
run_query(rs, s) ==
  LET v  == validate_spec(s)
      fn == AggregationFor(s)
  IN IF ~v.ok THEN [ok |-> FALSE, err |-> v]
     ELSE IF fn = "Unhandled chart_type"
       THEN [ok |-> FALSE,
             err |-> Raise("ValueError", "Unhandled chart_type", Str(s.chart_type))]
     ELSE [ok |-> TRUE,
           result |-> PyList(ShapeResult(CallAggregation(fn, rs, s.window), s)),
           explanation |-> build_explanation(s)]

\* the second caller hands its spec to run_query
OtherCall(s) ==
  /\ other.pc = "idle"
  /\ other' = [NotCalled EXCEPT !.pc = "built", !.spec = s]
  /\ UNCHANGED <<rows, pc, d, spec, err, aggCalls, base, result, explanation, past, session, call>>

\* RunQueryValidate of the second invocation
OtherValidate ==
  /\ other.pc = "built"
  /\ LET v == validate_spec(other.spec)
     IN other' = IF v.ok
                   THEN [other EXCEPT !.pc = "validated",
                                      !.explanation = build_explanation(other.spec)]
                   ELSE [other EXCEPT !.pc = "failed", !.err = v]
  /\ UNCHANGED <<rows, pc, d, spec, err, aggCalls, base, result, explanation, past, session, call>>

\* RunQueryAggregate of the second invocation
OtherAggregate ==
  /\ other.pc = "validated"
  /\ LET fn == AggregationFor(other.spec)
     IN other' = IF fn = "Unhandled chart_type"
                   THEN [other EXCEPT
                           !.pc = "failed",
                           !.err = Raise("ValueError", "Unhandled chart_type",
                                         Str(other.spec.chart_type))]
                   ELSE [other EXCEPT
                           !.pc = "aggregated",
                           !.base = CallAggregation(fn, rows, other.spec.window)]
  /\ UNCHANGED <<rows, pc, d, spec, err, aggCalls, base, result, explanation, past, session, call>>

\* RunQueryShape of the second invocation
OtherShape ==
  /\ other.pc = "aggregated"
  /\ other' = [other EXCEPT !.pc = "done",
                            !.result = PyList(ShapeResult(other.base, other.spec))]
  /\ UNCHANGED <<rows, pc, d, spec, err, aggCalls, base, result, explanation, past, session, call>>

\* the second caller is back
OtherReturn ==
  /\ other.pc \in {"done", "failed"}
  /\ other' = NotCalled
  /\ UNCHANGED <<rows, pc, d, spec, err, aggCalls, base, result, explanation, past, session, call>>

NextConcurrent ==
  \/ \E s \in RepeatSpecs : ConstructChartSpec(s)
  \/ RunQueryValidate
  \/ RunQueryAggregate
  \/ RunQueryShape
  \/ NextQuery
  \/ \E s \in RepeatSpecs : OtherCall(s)
  \/ OtherValidate
  \/ OtherAggregate
  \/ OtherShape
  \/ OtherReturn

SpecConcurrent == Init /\ [][NextConcurrent]_vars

(***************************************************************************)
(* The AI app: parse_natural_language_query of ai_query_parser.py and      *)
(* render_ai_mode, execute_ai_query, execute_query of streamlit_ai.py.     *)
(* A parser result (QuerySpec) is a dictionary: the nine keys              *)
(* spec_from_dict reads, and result_type, season and message. The user's   *)
(* question is what the keyword tests of the rule-based parser find in it. *)
(***************************************************************************)
NoFields == Dict(Absent, Absent, Absent, Absent, Absent, Absent, Absent, Absent, Absent)

QuerySpec(result_type, fields, season, message) ==
  [k \in (DOMAIN fields) \cup {"result_type", "season", "message"} |->
     IF k = "result_type" THEN Str(result_type)
     ELSE IF k = "season" THEN season
     ELSE IF k = "message" THEN message
     ELSE fields[k]]

\* the window names as the parsers write them
WindowChars(w) ==
  CASE w = "SEASON"  -> <<"S","E","A","S","O","N">>
    [] w = "LAST_5"  -> <<"L","A","S","T","_","5">>
    [] w = "LAST_10" -> <<"L","A","S","T","_","1","0">>
    [] w = "LAST_20" -> <<"L","A","S","T","_","2","0">>

\* _rule_based_parser(query): a QUERY result, or CLARIFY for a comparison
\* that names fewer than two teams
rule_based_parser(q) ==
  LET start == [NoFields EXCEPT !.chart_type = Str(q.chart_type),
                                !.entity = Str("team"),
                                !.window = Str(WindowChars(q.window))]
  IN IF q.chart_type = "leaderboard"
       THEN QuerySpec("QUERY",
                      [start EXCEPT !.metric = Str(q.metric),
                                    !.top_n = IF q.top = Absent THEN PyInt(10) ELSE q.top,
                                    !.order = IF q.worst THEN Str("asc") ELSE Str("desc")],
                      Absent, Absent)
     ELSE IF q.chart_type = "scatter"
       THEN QuerySpec("QUERY",
                      IF q.shooting
                        THEN [start EXCEPT !.x_metric = Str("eFG"), !.y_metric = Str("TS")]
                        ELSE [start EXCEPT !.x_metric = Str("ORtg"), !.y_metric = Str("DRtg")],
                      Absent, Absent)
     ELSE IF Len(q.teams) >= 2
       THEN QuerySpec("QUERY", [start EXCEPT !.teams = PyList(SubSeq(q.teams, 1, 2))],
                      Absent, Absent)
     ELSE IF Len(q.teams) = 1
       THEN QuerySpec("CLARIFY", NoFields, Absent,
                      Str("Found one team, but comparison needs at least 2 teams."))
     ELSE QuerySpec("CLARIFY", NoFields, Absent,
                    Str("Which teams would you like to compare?"))

\* _rule_based_parser_with_validation(query)
rule_based_parser_with_validation(q) ==
  IF q.out_of_scope
    THEN QuerySpec("OUT_OF_SCOPE", NoFields, Absent, Str("Not supported."))
  ELSE LET r == rule_based_parser(q)
       IN IF Truthy(q.season) THEN [r EXCEPT !.season = q.season] ELSE r

\* result.get(key) when truthy, else the key is left out
OnlyTruthy(v) == IF v # Absent /\ Truthy(v) THEN v ELSE Absent

\* the question _validate_query_spec asks for an error message
ClarifyMessage(msg) ==
  IF msg \in {"Leaderboard requires 'metric'.", "Unsupported metric",
              "Scatter requires x_metric and y_metric.",
              "Scatter uses unsupported metric(s)."}
    THEN Str("Which metric would you like to see?")
  ELSE IF msg = "Unsupported window" THEN Str("Over what time period?")
  ELSE IF msg = "Compare requires at least two team abbreviations in 'teams'."
    THEN Str("Which teams would you like to compare?")
  ELSE Str("Could not process request. Please try rephrasing.")

\* _validate_query_spec(result): None when spec_from_dict and validate_spec
\* accept the rebuilt dictionary, a CLARIFY result on a ValueError, and any
\* other exception goes on to the caller
validate_query_spec(r) ==
  LET query_dict ==
        Dict(DictGet(r, "chart_type", PyNone), DictGet(r, "entity", Str("team")),
             DictGet(r, "window", PyNone), OnlyTruthy(r.metric), OnlyTruthy(r.top_n),
             OnlyTruthy(r.order), OnlyTruthy(r.x_metric), OnlyTruthy(r.y_metric),
             OnlyTruthy(r.teams))
      built == spec_from_dict(query_dict)
      out   == IF built.ok THEN validate_spec(built.val) ELSE built
  IN IF out.ok THEN Return(PyNone)
     ELSE IF out.kind = "ValueError"
       THEN Return(QuerySpec("CLARIFY", NoFields, Absent, ClarifyMessage(out.msg)))
     ELSE out

\* the call to the OpenAI API failed
APIError == [ok |-> FALSE, kind |-> "Exception", msg |-> "api", arg |-> PyNone]

\* parse_natural_language_query that returns the answer of the API as it
\* came, whatever the validation of a QUERY says
parse_natural_language_query_unvalidated(q, api_key, llm) ==
  IF ~api_key THEN rule_based_parser_with_validation(q)
  ELSE IF ~llm.ok THEN rule_based_parser_with_validation(q)
  ELSE llm.val

\* parse_natural_language_query(user_query): api_key is whether
\* OPENAI_API_KEY is set, llm what _call_openai_structured returns or raises
parse_natural_language_query(q, api_key, llm) ==
  IF ~api_key THEN rule_based_parser_with_validation(q)
  ELSE IF ~llm.ok THEN rule_based_parser_with_validation(q)
  ELSE IF llm.val.result_type = Str("QUERY")
    THEN LET validation_result == validate_query_spec(llm.val)
         IN IF ~validation_result.ok THEN rule_based_parser_with_validation(q)
            ELSE IF validation_result.val # PyNone THEN validation_result.val
            ELSE llm.val
  ELSE llm.val

\* the seasons with data (get_available_seasons) and the rows of each
AvailableSeasons == {"2023-24", "2024-25"}

SeasonData(season) == IF season = "2023-24" THEN DataSet(2) ELSE DataSet(1)

\* a question as the rule-based parser reads it
Question(out_of_scope, chart_type, window, metric, top, worst, shooting, teams, season) ==
  [out_of_scope |-> out_of_scope, chart_type |-> chart_type, window |-> window,
   metric |-> metric, top |-> top, worst |-> worst, shooting |-> shooting,
   teams |-> teams, season |-> season]

SeasonsAsked == {PyNone, Str("2023-24"), Str("2019-20")}

UserQuestions ==
  {Question(o, "leaderboard", w, m, t, b, FALSE, <<>>, se) :
     o \in BOOLEAN, w \in {"SEASON", "LAST_10"}, m \in {"NET_RTG", "DRtg", "PPG"},
     t \in {Absent, PyInt(0), PyInt(2)}, b \in BOOLEAN, se \in SeasonsAsked}
  \cup
  {Question(FALSE, "scatter", w, "NET_RTG", Absent, FALSE, sh, <<>>, PyNone) :
     w \in {"SEASON", "LAST_5"}, sh \in BOOLEAN}
  \cup
  {Question(FALSE, "compare", "SEASON", "NET_RTG", Absent, FALSE, FALSE, tm, se) :
     tm \in {<<>>, <<Abbrevs[1]>>, <<Abbrevs[1], Abbrevs[2]>>,
             <<Abbrevs[2], Abbrevs[1], Abbrevs[NumTeams]>>},
     se \in SeasonsAsked}

\* what the model can answer under the response schema, nulls removed
LLMResponses ==
  LET board == [NoFields EXCEPT !.chart_type = Str("leaderboard"), !.entity = Str("team"),
                                !.window = Str(WindowChars("LAST_10")),
                                !.metric = Str("NET_RTG"), !.top_n = PyInt(2),
                                !.order = Str("desc")]
      versus == [NoFields EXCEPT !.chart_type = Str("compare"), !.entity = Str("team"),
                                 !.window = Str(WindowChars("SEASON")),
                                 !.teams = PyList(<<Abbrevs[1], Abbrevs[2]>>)]
      points == [NoFields EXCEPT !.chart_type = Str("scatter"), !.entity = Str("team"),
                                 !.window = Str(WindowChars("LAST_5")),
                                 !.x_metric = Str("ORtg"), !.y_metric = Str("DRtg")]
  IN {QuerySpec("QUERY", f, se, Absent) :
        f \in {board, versus, points,
               [board EXCEPT !.metric = Str("FAKE_METRIC")],
               [board EXCEPT !.top_n = PyInt(0)],
               [board EXCEPT !.window = Absent],
               [versus EXCEPT !.teams = PyList(<<Abbrevs[1]>>)],
               [points EXCEPT !.y_metric = Absent],
               [NoFields EXCEPT !.entity = Str("team")]},
        se \in {Absent, Str("2023-24"), Str("2019-20")}}
     \cup
     {QuerySpec(rt, f, Absent, Str("Please say more.")) :
        rt \in {"CLARIFY", "OUT_OF_SCOPE"},
        f \in {NoFields, board, [versus EXCEPT !.teams = PyList(<<Abbrevs[1]>>)]}}

LLMOutcomes == {APIError} \cup {Return(r) : r \in LLMResponses}

\* render_ai_mode on "Ask AI": parse the question, pop the season, and
\* execute_ai_query: an unavailable season ends there; otherwise the rows
\* of the season are loaded and execute_query calls spec_from_dict on the
\* parser result (run_query follows in the RunQuery steps)
AskAI(q, api_key, llm) ==
  /\ pc = "idle"
  /\ \E parsed \in {parse_natural_language_query(q, api_key, llm)} :
     LET requested_season == DictGet(parsed, "season", PyNone)
         query_dict == [parsed EXCEPT !.season = Absent]
         out == spec_from_dict(query_dict)
     IN IF Truthy(requested_season) /\ requested_season.s \notin AvailableSeasons
          THEN /\ pc' = "failed"
               /\ err' = Raise("SeasonNotAvailable", "Season data not available",
                               requested_season)
               /\ UNCHANGED <<rows, d, spec>>
          ELSE /\ rows' = IF Truthy(requested_season)
                            THEN SeasonData(requested_season.s) ELSE rows
               /\ d' = query_dict
               /\ IF out.ok
                    THEN /\ spec' = out.val
                         /\ pc' = "built"
                         /\ err' = err
                    ELSE /\ spec' = spec
                         /\ pc' = "failed"
                         /\ err' = out
  /\ UNCHANGED <<aggCalls, base, result, explanation, past, other, session, call>>

\* the user asks any question, with or without an API key, and the API
\* answers or fails
render_ai_mode ==
  /\ pc = "idle"
  /\ \E q \in UserQuestions, api_key \in BOOLEAN, llm \in LLMOutcomes : AskAI(q, api_key, llm)

NextAI ==
  \/ render_ai_mode
  \/ RunQueryValidate
  \/ RunQueryAggregate
  \/ RunQueryShape
  \/ NextQuery

SpecAI == Init /\ [][NextAI]_vars

(***************************************************************************)
(* parse_natural_language_query called on its own. past holds the call     *)
(* under way: the question, whether OPENAI_API_KEY is set and what the API  *)
(* call gave; d is the QuerySpec the parser returned; pc is "parsed" once   *)
(* it has returned.                                                        *)
(***************************************************************************)
\* an answer that does not follow the response schema: top_n is a list, on
\* which int() raises TypeError inside _validate_query_spec
OffSchemaResponse ==
  QuerySpec("QUERY",
            [NoFields EXCEPT !.chart_type = Str("leaderboard"), !.entity = Str("team"),
                             !.window = Str(WindowChars("SEASON")),
                             !.metric = Str("NET_RTG"), !.top_n = PyList(<<Abbrevs[1]>>)],
            Absent, Absent)

ParserCall(q, api_key, llm) == [q |-> q, api_key |-> api_key, llm |-> llm]

\* result = parse_natural_language_query(user_query)
ParseQuestion(q, api_key, llm) ==
  /\ past' = {ParserCall(q, api_key, llm)}
  /\ d' = parse_natural_language_query(q, api_key, llm)
  /\ pc' = "parsed"
  /\ UNCHANGED <<rows, spec, err, aggCalls, base, result, explanation, other, session, call>>

AskQuestion ==
  /\ pc = "idle"
  /\ \E q \in UserQuestions, api_key \in BOOLEAN,
        llm \in LLMOutcomes \cup {Return(OffSchemaResponse)} : ParseQuestion(q, api_key, llm)

\* the caller has the result and may ask the next question
ParserReturned ==
  /\ pc = "parsed"
  /\ pc' = "idle"
  /\ d' = PyNone
  /\ past' = {}
  /\ UNCHANGED <<rows, spec, err, aggCalls, base, result, explanation, other, session, call>>

NextParser ==
  \/ AskQuestion
  \/ ParserReturned

SpecParser == Init /\ [][NextParser]_vars

(***************************************************************************)
(* The AI app over several questions: execute_ai_query and execute_query   *)
(* of streamlit_ai.py with st.session_state kept from one script run to    *)
(* the next. pc is "returned" when execute_ai_query has returned and main  *)
(* renders from the session state.                                         *)
(***************************************************************************)
\* the dictionaries render_ai_mode hands to execute_ai_query: parser results
\* with 'season' popped
SessionDicts ==
  {[rule_based_parser_with_validation(q) EXCEPT !.season = Absent] :
     q \in {x \in UserQuestions :
              x.season = PyNone /\ x.window = "SEASON" /\ x.metric = "NET_RTG" /\ ~x.worst}}

\* the season execute_ai_query runs the query on
SeasonUsed(requested_season, current_season) ==
  IF Truthy(requested_season) THEN requested_season ELSE current_season

\* the tuple execute_ai_query returns
Returned(success, season_used, error) ==
  [success |-> success, season_used |-> season_used, error |-> error]

\* execute_ai_query(query_dict, requested_season, available_seasons,
\* current_season) up to spec_from_dict inside execute_query: a requested
\* season without data returns at once
ExecuteAIQuery(query_dict, requested_season, current_season) ==
  /\ pc = "idle"
  /\ IF Truthy(requested_season) /\ requested_season.s \notin AvailableSeasons
       THEN /\ pc' = "returned"
            /\ call' = [requested_season |-> requested_season,
                        current_season |-> current_season,
                        returned |-> Returned(FALSE, current_season,
                                              Str("Season data not available"))]
            /\ UNCHANGED <<rows, d, spec, err>>
       ELSE /\ rows' = SeasonData(SeasonUsed(requested_season, current_season).s)
            /\ d' = query_dict
            /\ call' = [requested_season |-> requested_season,
                        current_season |-> current_season, returned |-> PyNone]
            /\ LET out == spec_from_dict(query_dict)
               IN IF out.ok
                    THEN /\ spec' = out.val
                         /\ pc' = "built"
                         /\ err' = err
                    ELSE /\ spec' = spec
                         /\ pc' = "failed"
                         /\ err' = out
  /\ UNCHANGED <<aggCalls, base, result, explanation, past, other, session>>

\* execute_query after run_query returned: the seven keys are stored, and
\* execute_ai_query returns (True, season, None)
ExecuteQueryStore ==
  /\ pc = "done"
  /\ LET season == SeasonUsed(call.requested_season, call.current_season)
     IN /\ session' = [result_df |-> result, spec |-> spec, explanation |-> explanation,
                       query_dict |-> d, selected_season |-> season,
                       query_ran |-> PyBool(TRUE), error |-> PyNone]
        /\ call' = [call EXCEPT !.returned = Returned(TRUE, season, PyNone)]
  /\ pc' = "returned"
  /\ UNCHANGED <<rows, d, spec, err, aggCalls, base, result, explanation, past, other>>

\* execute_query that stores each value as soon as it has it
ExecuteQueryExcept_stores_as_it_goes ==
  /\ pc = "failed"
  /\ session' = [session EXCEPT !.spec = spec, !.query_dict = d,
                                !.query_ran = PyBool(FALSE), !.error = Str(err.msg)]
  /\ call' = [call EXCEPT !.returned =
                Returned(TRUE, SeasonUsed(call.requested_season, call.current_season), PyNone)]
  /\ pc' = "returned"
  /\ UNCHANGED <<rows, d, spec, err, aggCalls, base, result, explanation, past, other>>

\* execute_query when spec_from_dict or run_query raised: query_ran and error
\* are set, the exception ends there, and execute_ai_query returns
\* (True, season, None)
ExecuteQueryExcept ==
  /\ pc = "failed"
  /\ session' = [session EXCEPT !.query_ran = PyBool(FALSE), !.error = Str(err.msg)]
  /\ call' = [call EXCEPT !.returned =
                Returned(TRUE, SeasonUsed(call.requested_season, call.current_season), PyNone)]
  /\ pc' = "returned"
  /\ UNCHANGED <<rows, d, spec, err, aggCalls, base, result, explanation, past, other>>

\* main has rendered; the next script run starts with the session state only
ScriptRerun ==
  /\ pc = "returned"
  /\ pc' = "idle"
  /\ d' = PyNone
  /\ spec' = PyNone
  /\ err' = NoError
  /\ aggCalls' = <<>>
  /\ base' = <<>>
  /\ result' = PyNone
  /\ explanation' = PyNone
  /\ call' = NotAsked
  /\ UNCHANGED <<rows, past, other, session>>

AskAndExecute ==
  /\ pc = "idle"
  /\ \E query_dict \in SessionDicts, requested_season \in SeasonsAsked,
        current_season \in {Str(s) : s \in AvailableSeasons} :
       ExecuteAIQuery(query_dict, requested_season, current_season)

NextSession ==
  \/ AskAndExecute
  \/ RunQueryValidate
  \/ RunQueryAggregate
  \/ RunQueryShape
  \/ ExecuteQueryStore
  \/ ExecuteQueryExcept
  \/ ScriptRerun

SpecSession == Init /\ [][NextSession]_vars

(***************************************************************************)
(* Properties.                                                             *)
(***************************************************************************)
\* spec_from_dict returned a ChartSpec for the dictionary d
Constructed == pc \in {"built", "validated", "aggregated", "done"} \/ (pc = "failed" /\ spec # PyNone)

\* run_query got past validate_spec
PastValidation == pc \in {"validated", "aggregated", "done"}

\* validate_spec raised
RejectedByValidation == pc = "failed" /\ spec # PyNone

\* the dictionary d is invalid for one of the reasons of the validation
\* rules: chart_type, entity, window, metric, top_n, compare teams
InvalidDict(dict) ==
  \/ ~(dict.chart_type.t = "str" /\ dict.chart_type.s \in {"leaderboard", "scatter", "compare"})
  \/ dict.entity \notin {Absent, Str("team")}
  \/ (dict.window # Absent /\ ~normalize_window(dict.window).ok)
  \/ /\ dict.chart_type = Str("leaderboard")
     /\ \/ dict.metric \notin ({Absent} \cup {Str(m) : m \in TEAM_METRICS_ALLOWLIST})
        \/ dict.top_n = PyNone
        \/ (dict.top_n.t = "int" /\ dict.top_n.n <= 0)
        \/ (dict.top_n.t = "float" /\ dict.top_n.h <= 0)
  \/ /\ dict.chart_type = Str("scatter")
     /\ \/ dict.x_metric \notin ({Absent} \cup {Str(m) : m \in TEAM_METRICS_ALLOWLIST})
        \/ dict.y_metric \notin ({Absent} \cup {Str(m) : m \in TEAM_METRICS_ALLOWLIST})
  \/ /\ dict.chart_type = Str("compare")
     /\ (dict.teams \in {Absent, PyNone} \/ Len(dict.teams.l) < 2)

NineMetrics ==
  {Str("ORtg"), Str("DRtg"), Str("NET_RTG"), Str("PACE"), Str("PPG"),
   Str("eFG"), Str("TS"), Str("AST_RATE"), Str("TOV_RATE")}

\* C2: metric allow-list closure. Once spec_from_dict has returned a
\* leaderboard spec with entity 'team' and top_n > 0, validation passes
\* exactly when the metric is one of the nine names; for a scatter spec with
\* entity 'team', exactly when both axis metrics are; a rejection is a
\* ValueError and the query then never aggregates or returns.
C2_AllowListClosure ==
  (PastValidation \/ RejectedByValidation) =>
    /\ (spec.chart_type = "leaderboard" /\ spec.entity = Str("team") /\ spec.top_n.n > 0) =>
         /\ PastValidation <=> spec.metric \in NineMetrics
         /\ RejectedByValidation => (err.kind = "ValueError" /\ aggCalls = <<>> /\ result = PyNone)
    /\ (spec.chart_type = "scatter" /\ spec.entity = Str("team")) =>
         /\ PastValidation <=> (spec.x_metric \in NineMetrics /\ spec.y_metric \in NineMetrics)
         /\ RejectedByValidation => (err.kind = "ValueError" /\ aggCalls = <<>> /\ result = PyNone)

\* C2 witness: a case variant of an allowed name was rejected on a scatter axis
C2_Witness ==
  /\ RejectedByValidation
  /\ spec.chart_type = "scatter"
  /\ spec.entity = Str("team")
  /\ spec.x_metric = Str("TS")
  /\ spec.y_metric = Str("ortg")

\* C3: validation precedes aggregation. Whenever run_query is past its
\* validation the spec is one validate_spec accepts; an aggregation call is
\* only on record after that; a query that failed has made no aggregation
\* call and holds no aggregate and no result.
C3_ValidationBeforeAggregation ==
  /\ PastValidation => validate_spec(spec).ok
  /\ aggCalls # <<>> => (pc \in {"aggregated", "done"} /\ Len(aggCalls) = 1)
  /\ pc = "failed" => (aggCalls = <<>> /\ base = <<>> /\ result = PyNone)

\* C3 witness: validate_spec rejected a spec and nothing was aggregated
C3_Witness ==
  /\ RejectedByValidation
  /\ err.msg = "Leaderboard requires top_n > 0."
  /\ aggCalls = <<>>

\* spec_from_dict got as far as normalize_window for a str window: the chart
\* type passed, and the window is in the ChartSpec or is what was refused
WindowNormalized ==
  /\ pc # "idle"
  /\ d.chart_type.t = "str"
  /\ d.chart_type.s \in {"leaderboard", "scatter", "compare"}
  /\ (Constructed \/ err.msg = "Unsupported window")

\* what normalize_window did with the window of d: the bucket, or "raise"
WindowOutcome == IF Constructed THEN spec.window ELSE "raise"

\* the text after "LAST_" of an input of the form LAST_N
LastNText(w) == SubSeq(w, 6, Len(w))

\* w is LAST_N for a decimal integer N, signed or not
IsLastN(w) ==
  /\ Len(w) > 5
  /\ SubSeq(w, 1, 5) = <<"L","A","S","T","_">>
  /\ LET n == LastNText(w)
         digits == IF Head(n) \in {"+", "-"} THEN Tail(n) ELSE n
     IN digits # <<>> /\ \A i \in DOMAIN digits : IsDigit(digits[i])

\* the N of LAST_N
LastNValue(w) ==
  LET n == LastNText(w)
  IN IF Head(n) = "-" THEN 0 - DigitsValue(Tail(n), 0)
     ELSE IF Head(n) = "+" THEN DigitsValue(Tail(n), 0)
     ELSE DigitsValue(n, 0)

\* the bucket the snapping rule gives N
SnapBucket(n) == IF n <= 5 THEN "LAST_5" ELSE IF n <= 10 THEN "LAST_10" ELSE "LAST_20"

\* C4 as claimed: every input LAST_N with N an integer normalizes to LAST_5
\* when N <= 5, to LAST_10 when 5 < N <= 10 and to LAST_20 when N > 10.
C4_SnapEveryInteger ==
  (WindowNormalized /\ d.window.t = "str" /\ IsLastN(d.window.s)) =>
    WindowOutcome = SnapBucket(LastNValue(d.window.s))

\* C4 as amended: every input LAST_N with N a non-negative integer
\* normalizes to LAST_5 when N <= 5, to LAST_10 when 5 < N <= 10 and to
\* LAST_20 when N > 10; for a negative N the minus sign is read as a
\* separator and the input is refused as an unsupported window.
C4_SnapNonNegative ==
  (WindowNormalized /\ d.window.t = "str" /\ IsLastN(d.window.s)) =>
    IF LastNValue(d.window.s) >= 0 /\ Head(LastNText(d.window.s)) # "-"
      THEN WindowOutcome = SnapBucket(LastNValue(d.window.s))
      ELSE /\ WindowOutcome = "raise"
           /\ err = Raise("ValueError", "Unsupported window", d.window)

\* C4 witness: LAST_15 was normalized to LAST_20
C4_Witness ==
  /\ pc = "built"
  /\ d.window = Str(<<"L","A","S","T","_","1","5">>)
  /\ spec.window = "LAST_20"

\* a spelling with its case folded, its padding removed and its separators
\* written as underscores
Canonical(w) == Resep(StrUpper(StrStrip(w)), "_")

\* the names of each bucket
BucketNames ==
  [SEASON  |-> {<<"S","E","A","S","O","N">>, <<"F","U","L","L","_","S","E","A","S","O","N">>, <<"Y","T","D">>},
   LAST_5  |-> {<<"L","A","S","T","5">>, <<"L","A","S","T","_","5">>, <<"L","5">>, <<"L","A","S","T","_","F","I","V","E">>},
   LAST_10 |-> {<<"L","A","S","T","1","0">>, <<"L","A","S","T","_","1","0">>, <<"L","1","0">>, <<"L","A","S","T","_","T","E","N">>},
   LAST_20 |-> {<<"L","A","S","T","2","0">>, <<"L","A","S","T","_","2","0">>, <<"L","2","0">>, <<"L","A","S","T","_","T","W","E","N","T","Y">>}]

\* the canonical spelling c counts games: LAST_ and then a token that is a
\* decimal integer
CountsGames(c) ==
  /\ Len(c) > 5
  /\ SubSeq(c, 1, 5) = <<"L","A","S","T","_">>
  /\ LET rest == LastNText(c)
         stop == IF \E i \in DOMAIN rest : rest[i] = "_"
                   THEN (CHOOSE i \in DOMAIN rest :
                           rest[i] = "_" /\ \A j \in 1..(i - 1) : rest[j] # "_") - 1
                   ELSE Len(rest)
     IN IsLastN(SubSeq(c, 1, 5 + stop))

GamesCounted(c) ==
  LET rest == LastNText(c)
      stop == IF \E i \in DOMAIN rest : rest[i] = "_"
                THEN (CHOOSE i \in DOMAIN rest :
                        rest[i] = "_" /\ \A j \in 1..(i - 1) : rest[j] # "_") - 1
                ELSE Len(rest)
  IN LastNValue(SubSeq(c, 1, 5 + stop))

\* the bucket a str window is a recognized spelling of, or "raise"
RecognizedAs(w) ==
  LET c == Canonical(w)
  IN IF CountsGames(c) THEN SnapBucket(GamesCounted(c))
     ELSE IF \E b \in DOMAIN BucketNames : c \in BucketNames[b]
       THEN CHOOSE b \in DOMAIN BucketNames : c \in BucketNames[b]
       ELSE "raise"

\* C5 as claimed: normalize_window returns a bucket only for a recognized
\* spelling of that bucket and raises a ValueError naming the value for
\* everything else, a null window included.
C5_NeverDefaults ==
  (WindowNormalized /\ d.window # Absent) =>
    /\ WindowOutcome = (IF d.window = PyNone THEN "raise" ELSE RecognizedAs(d.window.s))
    /\ WindowOutcome = "raise" => err = Raise("ValueError", "Unsupported window", d.window)

\* C5 as amended: for every str input normalize_window returns a bucket only
\* when the input is a recognized spelling of that bucket (an alias, or LAST_
\* followed by an integer token) and raises a ValueError naming the value
\* otherwise; a null window, however, is mapped to SEASON without an error.
C5_NeverDefaultsAStr ==
  (WindowNormalized /\ d.window # Absent) =>
    /\ WindowOutcome = (IF d.window = PyNone THEN "SEASON" ELSE RecognizedAs(d.window.s))
    /\ WindowOutcome = "raise" => err = Raise("ValueError", "Unsupported window", d.window)

\* C5 witness: an unrecognized spelling was refused with the value named
C5_Witness ==
  /\ pc = "failed"
  /\ d.window = Str(<<"S","E","A","S","O","N","S">>)
  /\ err = Raise("ValueError", "Unsupported window", Str(<<"S","E","A","S","O","N","S">>))

\* the spellings that differ from w in the case of one letter, in the case
\* of all letters, or in one separator that stands between two other
\* characters
Respellings(w) ==
  {StrUpper(w), StrLower(w)}
  \cup {[w EXCEPT ![i] = IF IsLower(w[i]) THEN UpperChar(w[i]) ELSE LowerChar(w[i])] :
          i \in DOMAIN w}
  \cup {[w EXCEPT ![i] = c] :
          i \in {j \in DOMAIN w : w[j] \in Separators /\ 1 < j /\ j < Len(w)},
          c \in Separators}

\* C6: window spellings are case-insensitive and separator-insensitive.
\* Whenever normalize_window has mapped a str window to a bucket, it maps
\* every respelling of that window to the same bucket.
C6_RespellingSameBucket ==
  (pc = "built" /\ d.window.t = "str") =>
    \A v \in Respellings(d.window.s) : normalize_window(Str(v)) = Return(spec.window)

\* C6 witness: "last-10" was mapped to LAST_10
C6_Witness ==
  /\ pc = "built"
  /\ d.window = Str(<<"l","a","s","t","-","1","0">>)
  /\ spec.window = "LAST_10"

\* the teams with at least one game in the window of the spec
TeamsInWindow == {r.TEAM_ABBREVIATION : r \in WindowFilter(rows, spec.window)}

\* the teams of the result table
ResultTeams == {result.l[i].TEAM_ABBREVIATION : i \in DOMAIN result.l}

LeaderboardDone == pc = "done" /\ spec.chart_type = "leaderboard"

CompareDone == pc = "done" /\ spec.chart_type = "compare"

\* C7: leaderboard size. The result of a leaderboard query has
\* min(top_n, number of teams with a game in the window) rows.
C7_LeaderboardSize ==
  LeaderboardDone =>
    Len(result.l) = (IF spec.top_n.n < Cardinality(TeamsInWindow)
                       THEN spec.top_n.n ELSE Cardinality(TeamsInWindow))

\* C7 witness: three teams have games and a top-2 leaderboard returned 2 rows
C7_Witness ==
  /\ LeaderboardDone
  /\ spec.top_n.n = 2
  /\ Cardinality(TeamsInWindow) > 2
  /\ Len(result.l) = 2

\* row a ranks strictly ahead of row b on column col: a has a value and b
\* has none, or both have one and a's is smaller (ascending) or larger
Ahead(a, b, col, ascending) ==
  /\ a[col].den # 0
  /\ \/ b[col].den = 0
     \/ IF ascending
          THEN a[col].num * b[col].den < b[col].num * a[col].den
          ELSE a[col].num * b[col].den > b[col].num * a[col].den

\* C8: leaderboard order. With order 'asc' or 'desc' the result holds
\* min(top_n, teams) distinct rows of the aggregate, no row ranks strictly
\* ahead of a row before it, and no row left out ranks strictly ahead of a
\* row returned.
C8_LeaderboardSorted ==
  (LeaderboardDone /\ spec.order \in {Str("asc"), Str("desc")}) =>
    LET res == result.l
        col == spec.metric.s
        asc == spec.order = Str("asc")
        in_base(r) == \E i \in DOMAIN base : base[i] = r
        in_res(r) == \E i \in DOMAIN res : res[i] = r
    IN /\ \A i \in DOMAIN res : in_base(res[i])
       /\ \A i, j \in DOMAIN res : i < j => res[i] # res[j] /\ ~Ahead(res[j], res[i], col, asc)
       /\ \A i \in DOMAIN base : ~in_res(base[i]) =>
            \A j \in DOMAIN res : ~Ahead(base[i], res[j], col, asc)
       /\ Len(res) = (IF spec.top_n.n < Len(base) THEN spec.top_n.n ELSE Len(base))

\* C8 witness: an ascending top-2 leaderboard whose two rows differ on the
\* metric and that left a team out
C8_Witness ==
  /\ LeaderboardDone
  /\ spec.order = Str("asc")
  /\ spec.top_n.n = 2
  /\ Len(base) > 2
  /\ Ahead(result.l[1], result.l[2], spec.metric.s, TRUE)

\* C9 as claimed: when the N abbreviations of the teams list are all in the
\* data for the window, the compare result has exactly N rows and its team
\* set is the requested set.
C9_CompareCompleteness ==
  (CompareDone /\ \A i \in DOMAIN spec.teams.l : spec.teams.l[i] \in TeamsInWindow) =>
    /\ Len(result.l) = Len(spec.teams.l)
    /\ ResultTeams = {spec.teams.l[i] : i \in DOMAIN spec.teams.l}

\* C9 as amended: when the requested abbreviations are all in the data for
\* the window (ignoring letter case), the compare result has exactly one row
\* per distinct requested team, N rows when the N requested teams are
\* distinct, and its team set is the requested set in upper case.
C9_CompareCompletenessDistinct ==
  (CompareDone /\ \A i \in DOMAIN spec.teams.l : StrUpper(spec.teams.l[i]) \in TeamsInWindow) =>
    /\ Len(result.l) = Cardinality({StrUpper(spec.teams.l[i]) : i \in DOMAIN spec.teams.l})
    /\ ResultTeams = {StrUpper(spec.teams.l[i]) : i \in DOMAIN spec.teams.l}
    /\ \A i, j \in DOMAIN result.l :
         i # j => result.l[i].TEAM_ABBREVIATION # result.l[j].TEAM_ABBREVIATION

\* C9 witness: three distinct teams, one of them in lower case, all in the
\* data, and three rows
C9_Witness ==
  /\ CompareDone
  /\ spec.teams = PyList(<<Abbrevs[2], StrLower(Abbrevs[1]), Abbrevs[NumTeams]>>)
  /\ Len(result.l) = 3

\* a and b are the same abbreviation but for letter case
SameIgnoringCase(a, b) == StrLower(a) = StrLower(b)

\* C10: compare matches abbreviations without regard to case. The result
\* holds exactly the rows of the aggregate, in its order, whose team is one
\* of the requested abbreviations but for letter case, and so no row of a
\* team that was not requested.
C10_CompareCaseInsensitive ==
  CompareDone =>
    LET requested(r) == \E i \in DOMAIN spec.teams.l :
                          SameIgnoringCase(r.TEAM_ABBREVIATION, spec.teams.l[i])
    IN result.l = SelectSeq(base, requested)

\* C10 witness: a lower-case request matched the team's row while another
\* team of the aggregate was left out
C10_Witness ==
  /\ CompareDone
  /\ spec.teams = PyList(<<StrLower(Abbrevs[1]), NoSuchTeam>>)
  /\ ResultTeams = {Abbrevs[1]}
  /\ Len(base) > 1

\* a ChartSpec is in hand and validate_spec accepts it
ValidSpec == Constructed /\ validate_spec(spec).ok

\* none of the requested abbreviations is a team of the data in the window
AllRequestedAbsent == RequestedTeams(spec) \cap TeamsInWindow = {}

\* C11: an empty result is not an error. A valid compare spec whose
\* requested abbreviations are all absent from the data never makes
\* run_query raise, and run_query returns a table of zero rows together
\* with the explanation of the spec.
C11_EmptyCompareIsNotAnError ==
  (ValidSpec /\ spec.chart_type = "compare" /\ AllRequestedAbsent) =>
    /\ pc # "failed"
    /\ err = NoError
    /\ pc = "done" => /\ result = PyList(<<>>)
                      /\ explanation = build_explanation(spec)

\* C11 witness: two abbreviations no row carries were compared on data with
\* teams, and run_query returned no row and an explanation
C11_Witness ==
  /\ CompareDone
  /\ spec.teams = PyList(<<NoSuchTeam, NoSuchTeamEither>>)
  /\ Len(base) > 0
  /\ result = PyList(<<>>)
  /\ explanation = build_explanation(spec)

ScatterDone == pc = "done" /\ spec.chart_type = "scatter"

\* C12: a scatter query returns the complete per-team aggregate, neither
\* truncated nor filtered: exactly one row per team with at least one game
\* in its window, each row carrying the x_metric and the y_metric column.
C12_ScatterFullAggregate ==
  ScatterDone =>
    /\ result.l = aggregate_team_complete(rows, spec.window)
    /\ ResultTeams = TeamsInWindow
    /\ Len(result.l) = Cardinality(TeamsInWindow)
    /\ \A i \in DOMAIN result.l :
         /\ spec.x_metric.s \in DOMAIN result.l[i]
         /\ spec.y_metric.s \in DOMAIN result.l[i]

\* C12 witness: a scatter of a box-score metric against a rating returned
\* every team of the data, one of them without an x value
C12_Witness ==
  /\ ScatterDone
  /\ spec.x_metric = Str("eFG")
  /\ spec.y_metric = Str("DRtg")
  /\ Len(result.l) = NumTeams
  /\ \E i \in DOMAIN result.l : IsNaN(result.l[i]["eFG"])

\* the int spec value n is the one the dictionary value v denotes: v itself,
\* a non-negative float cut to its integer part, or a decimal numeral
DenotesInt(v, n) ==
  CASE v.t = "int" -> n = v.n
    [] v.t = "float" -> 2 * n <= v.h /\ v.h < 2 * n + 2
    [] v.t = "str" -> n >= 0 /\ PyStrOfNat(n) = StrStrip(v.s)
    [] OTHER -> FALSE

\* the fields other than window: entity, and the fields the chart type
\* keeps, hold the dictionary's value when it has one and the documented
\* default when it has none
FieldDefaults ==
  /\ spec.entity = (IF d.entity = Absent THEN Str("team") ELSE d.entity)
  /\ spec.chart_type = "leaderboard" =>
       /\ spec.metric = (IF d.metric = Absent THEN Str("NET_RTG") ELSE d.metric)
       /\ IF d.top_n = Absent THEN spec.top_n = PyInt(10)
                              ELSE DenotesInt(d.top_n, spec.top_n.n)
  /\ spec.chart_type = "scatter" =>
       /\ spec.x_metric = (IF d.x_metric = Absent THEN Str("ORtg") ELSE d.x_metric)
       /\ spec.y_metric = (IF d.y_metric = Absent THEN Str("DRtg") ELSE d.y_metric)

\* C13 as claimed: spec_from_dict gives an absent field its default (entity
\* 'team', window 'SEASON', top_n 10 and metric 'NET_RTG' for a leaderboard,
\* x_metric 'ORtg' and y_metric 'DRtg' for a scatter), and a field that is
\* present keeps the value the dictionary gives it: the window is SEASON
\* only when it is absent or spells SEASON.
C13_DefaultsOnlyWhenAbsent ==
  Constructed =>
    /\ FieldDefaults
    /\ IF d.window = Absent THEN spec.window = "SEASON"
         ELSE d.window.t = "str" /\ spec.window = RecognizedAs(d.window.s)

\* C13 as amended: as claimed, except that a window that is present with
\* the value None is given the default SEASON as well.
C13_DefaultsWhenAbsentOrNullWindow ==
  Constructed =>
    /\ FieldDefaults
    /\ IF d.window \in {Absent, PyNone} THEN spec.window = "SEASON"
         ELSE d.window.t = "str" /\ spec.window = RecognizedAs(d.window.s)

\* C13 witness: a leaderboard dictionary that has a metric and a top_n but
\* neither entity nor window got the defaults for these two and kept the
\* other two
C13_Witness ==
  /\ pc = "built"
  /\ d.chart_type = Str("leaderboard")
  /\ d.entity = Absent /\ d.window = Absent
  /\ d.metric = Str("PPG") /\ d.top_n = PyInt(3)
  /\ spec.entity = Str("team") /\ spec.window = "SEASON"
  /\ spec.metric = Str("PPG") /\ spec.top_n = PyInt(3)

\* run_query is past its aggregation step
Aggregated == pc \in {"aggregated", "done"}

\* C14: aggregation shape selection. A query that got to its aggregation
\* made exactly one aggregation call, with the window of the spec: the
\* offense+defense aggregate for a leaderboard of ORtg, DRtg, NET_RTG or PACE,
\* the complete aggregate for a leaderboard of any other metric, for a
\* scatter and for a compare; a query that did not get there made none.
C14_AggregationSelection ==
  IF Aggregated
    THEN /\ Len(aggCalls) = 1
         /\ aggCalls[1].window = spec.window
         /\ aggCalls[1].fn =
              (IF /\ spec.chart_type = "leaderboard"
                  /\ spec.metric \in {Str("ORtg"), Str("DRtg"), Str("NET_RTG"), Str("PACE")}
                 THEN "aggregate_team_with_defense"
                 ELSE "aggregate_team_complete")
         /\ base = CallAggregation(aggCalls[1].fn, rows, spec.window)
    ELSE aggCalls = <<>>

\* C14 witness: a leaderboard of PACE over the last 5 games called the
\* offense+defense aggregate once, with LAST_5
C14_Witness ==
  /\ LeaderboardDone
  /\ spec.metric = Str("PACE")
  /\ aggCalls = <<[fn |-> "aggregate_team_with_defense", window |-> "LAST_5"]>>

\* C15 as claimed: every ChartSpec validate_spec accepts has one of the three
\* chart types, and run_query never raises 'Unhandled chart_type'.
C15_UnhandledUnreachable ==
  /\ ValidSpec => spec.chart_type \in ChartType
  /\ ~(pc = "failed" /\ ~err.ok /\ err.msg = "Unhandled chart_type")

\* a leaderboard dictionary that is valid but for its top_n, which is there
\* and is not a positive int: zero, negative, a float, None or a str
BadTopNOnly ==
  /\ pc # "idle"
  /\ d # PyNone
  /\ d.chart_type = Str("leaderboard")
  /\ d.top_n # Absent
  /\ ~(d.top_n.t = "int" /\ d.top_n.n > 0)
  /\ ~InvalidDict([d EXCEPT !.top_n = PyInt(1)])

\* C16 as claimed: a leaderboard request whose top_n is not a positive
\* integer never gets past validation, its ChartSpec (if one is built) holds
\* no top_n other than the one given, and it is rejected with the ValueError
\* of the top_n rule, never with an error of another kind.
C16_BadTopNRejected ==
  BadTopNOnly =>
    /\ ~PastValidation
    /\ Constructed => d.top_n.t = "int" /\ spec.top_n = d.top_n
    /\ pc = "failed" =>
         /\ err.kind = "ValueError"
         /\ err.msg = "Leaderboard requires top_n > 0."

\* the number of abbreviations the teams field lists; none when it is None
TeamsNamed == IF spec.teams.t = "list" THEN Len(spec.teams.l) ELSE 0

CompareRuleMessage == "Compare requires at least two team abbreviations in 'teams'."

\* C17: the compare rule of validate_spec. A compare spec that lists fewer
\* than 2 team abbreviations (teams None, empty or a single one) never gets
\* past validation and, when entity and window are in order, is rejected
\* with the ValueError of the compare rule; a compare spec that lists at
\* least 2, with entity 'team' and a supported window, is never rejected.
C17_CompareTeamsRule ==
  (Constructed /\ spec.chart_type = "compare") =>
    LET in_order == spec.entity = Str("team") /\ spec.window \in WindowType
    IN /\ TeamsNamed < 2 =>
            /\ ~PastValidation
            /\ (pc = "failed" /\ in_order) =>
                 err = Raise("ValueError", CompareRuleMessage, spec.teams)
       /\ (TeamsNamed >= 2 /\ in_order) => pc # "failed"
       /\ (TeamsNamed >= 2 /\ pc = "failed") => err.msg # CompareRuleMessage

\* C17 witness: a compare of a single team, with entity 'team' and a
\* supported window, was rejected by the compare rule
C17_Witness ==
  /\ pc = "failed"
  /\ spec.chart_type = "compare"
  /\ spec.entity = Str("team") /\ spec.window = "LAST_5"
  /\ spec.teams = PyList(<<Abbrevs[1]>>)
  /\ err.msg = CompareRuleMessage

\* C18: determinism and history independence. When a query has returned or
\* raised, its outcome (the result table, row for row in order, and the
\* explanation, or the error) is the outcome every earlier run of the same
\* spec against the same rows had, whatever was run in between.
C18_SameOutcomeEveryTime ==
  pc \in {"done", "failed"} =>
    \A p \in past : p.spec = spec => p.outcome = Outcome

\* C18 witness: a leaderboard with two neighbouring rows tied on the metric
\* returned what it returned before, after a query that succeeded and two
\* that failed
C18_Witness ==
  /\ LeaderboardDone
  /\ \E p \in past : p.spec = spec /\ p.outcome = Outcome
  /\ \E p \in past : p.spec # spec /\ p.outcome.ok
  /\ \E p \in past : ~p.outcome.ok /\ p.outcome.err.msg = "Unhandled chart_type"
  /\ \E p \in past : ~p.outcome.ok /\ p.outcome.err.msg = "Unsupported metric"
  /\ \E i \in DOMAIN result.l : \E j \in DOMAIN result.l :
       /\ j = i + 1
       /\ ~Ahead(result.l[i], result.l[j], spec.metric.s, TRUE)
       /\ ~Ahead(result.l[j], result.l[i], spec.metric.s, TRUE)

\* what the second invocation returned, or what it raised
OtherOutcome ==
  IF other.pc = "done"
    THEN [ok |-> TRUE, result |-> other.result, explanation |-> other.explanation]
    ELSE [ok |-> FALSE, err |-> other.err]

\* each invocation that has finished gave what run_query gives for its spec
\* and the rows when called alone
AsWhenAlone ==
  /\ pc \in {"done", "failed"} => Outcome = run_query(rows, spec)
  /\ other.pc \in {"done", "failed"} => OtherOutcome = run_query(rows, other.spec)

\* no step changes the rows, nor the spec of an invocation under way
InputsKept ==
  /\ rows' = rows
  /\ (pc # "idle" /\ pc' # "idle") => spec' = spec
  /\ (other.pc # "idle" /\ other'.pc # "idle") => other'.spec = other.spec

\* C19: run_query never mutates its inputs, so overlapping queries are
\* independent. Whatever the interleaving of the steps of two invocations
\* against the same rows, no step changes the rows or the spec of either,
\* and each invocation returns or raises what it would when run alone.
C19_ConcurrentQueriesIndependent == []AsWhenAlone /\ [][InputsKept]_vars

\* C19 witness: two invocations with different specs and different windows
\* have both returned before either caller took its result, each with its
\* own result
C19_Witness ==
  /\ pc = "done" /\ other.pc = "done"
  /\ spec.chart_type = "scatter" /\ spec.window = "LAST_5"
  /\ other.spec.chart_type = "leaderboard" /\ other.spec.window = "SEASON"
  /\ Outcome = run_query(rows, spec)
  /\ OtherOutcome = run_query(rows, other.spec)
  /\ result # other.result

\* C20 as claimed: in the AI app, a parser result whose result_type is
\* CLARIFY or OUT_OF_SCOPE is never passed to spec_from_dict (d is the
\* dictionary the query under way passed to it), and so never to run_query.
C20_NonQueryNeverConstructed ==
  (pc # "idle" /\ d # PyNone) => d.result_type = Str("QUERY")

\* C21 as claimed: a QUERY result of parse_natural_language_query, from the
\* API path or from the rule-based parser, never fails with a ValueError
\* when the AI app hands it to spec_from_dict and run_query.
C21_ParsedQueryPassesValidation ==
  (d # PyNone /\ d.result_type = Str("QUERY")) => ~(pc = "failed" /\ err.kind = "ValueError")

RowSet(tbl) == {tbl[i] : i \in DOMAIN tbl}

GamesOf(S, t) == {r \in S : r.TEAM_ABBREVIATION = t}

\* kept is the n most recent of all, or all of it when it has fewer than n
MostRecent(kept, all, n) ==
  /\ kept \subseteq all
  /\ Cardinality(kept) = (IF Cardinality(all) < n THEN Cardinality(all) ELSE n)
  /\ \A a \in kept, b \in all \ kept : a.GAME_DATE > b.GAME_DATE

WithoutTeam(rs, u) == SelectSeq(rs, LAMBDA r : r.TEAM_ABBREVIATION # u)

\* the number of games behind a row of the aggregate
GamesBehind(row) ==
  IF "PPG" \in DOMAIN row THEN row.PPG.den ELSE row.PACE.den \div 25

\* C22: when run_query has aggregated over a LAST_N window, the rows of the
\* window are, for every team, that team's min(N, its game count) most recent
\* games; every team with a game has its row in the aggregate, over that many
\* games; taking another team's rows away leaves a team's window as it was;
\* and get_last_n_games keeps the same rows.
C22_WindowPerTeam ==
  (pc = "aggregated" /\ WindowSize(spec.window) > 0) =>
    LET n     == WindowSize(spec.window)
        all   == RowSet(rows)
        kept  == WindowFilter(rows, spec.window)
        teams == {r.TEAM_ABBREVIATION : r \in all}
    IN /\ RowSet(get_last_n_games(rows, n)) = kept
       /\ {base[i].TEAM_ABBREVIATION : i \in DOMAIN base} = teams
       /\ \A i \in DOMAIN base :
            GamesBehind(base[i]) = Cardinality(GamesOf(kept, base[i].TEAM_ABBREVIATION))
       /\ \A t \in teams :
            /\ MostRecent(GamesOf(kept, t), GamesOf(all, t), n)
            /\ \A u \in teams \ {t} :
                 /\ GamesOf(WindowFilter(WithoutTeam(rows, u), spec.window), t) = GamesOf(kept, t)
                 /\ GamesOf(RowSet(get_last_n_games(WithoutTeam(rows, u), n)), t) = GamesOf(kept, t)

\* a LAST_5 query has aggregated rows where one team has fewer than five
\* games and another has more
C22_Witness ==
  /\ pc = "aggregated"
  /\ spec.window = "LAST_5"
  /\ \E t \in {r.TEAM_ABBREVIATION : r \in RowSet(rows)} :
       Cardinality(GamesOf(RowSet(rows), t)) < 5
  /\ \E t \in {r.TEAM_ABBREVIATION : r \in RowSet(rows)} :
       Cardinality(GamesOf(RowSet(rows), t)) > 5

\* NET_RTG of the row is its ORtg minus its DRtg: the three are ratios over
\* the same possessions (all three missing when there are none)
NetIsOffenseMinusDefense(r) ==
  /\ r.NET_RTG.den = r.ORtg.den
  /\ r.NET_RTG.den = r.DRtg.den
  /\ r.NET_RTG.num = r.ORtg.num - r.DRtg.num

\* C23: every row of the result of a NET_RTG leaderboard, a scatter or a
\* compare is a row of the aggregate, and its NET_RTG equals its ORtg minus
\* its DRtg.
C23_NetRatingIdentity ==
  (/\ pc = "done"
   /\ \/ spec.chart_type \in {"scatter", "compare"}
      \/ spec.chart_type = "leaderboard" /\ spec.metric = Str("NET_RTG"))
    => \A i \in DOMAIN result.l :
         /\ result.l[i] \in {base[j] : j \in DOMAIN base}
         /\ NetIsOffenseMinusDefense(result.l[i])

\* a NET_RTG leaderboard whose sort moved rows of teams with different
\* ratings
C23_Witness ==
  /\ pc = "done"
  /\ spec.chart_type = "leaderboard"
  /\ spec.metric = Str("NET_RTG")
  /\ Len(result.l) >= 2
  /\ result.l # SubSeq(base, 1, Len(result.l))
  /\ \E i \in DOMAIN result.l : result.l[i].NET_RTG.num # 0 /\ result.l[i].NET_RTG.den # 0
  /\ \E i, j \in DOMAIN result.l : result.l[i].ORtg # result.l[j].ORtg

\* the rows of a table that have a value for the leaderboard metric
Defined(tbl) == {tbl[i] : i \in {j \in DOMAIN tbl : tbl[j][spec.metric.s].den # 0}}

\* the rows of a table whose leaderboard metric is missing
Missing(tbl) == {tbl[i] : i \in {j \in DOMAIN tbl : tbl[j][spec.metric.s].den = 0}}

\* C24: in a leaderboard sorted 'asc' or 'desc', no row with a missing
\* metric stands before a row with a value, and a row with a missing metric
\* is in the result only when every team with a value is in it too, these
\* being fewer than top_n.
C24_MissingSortLast ==
  (LeaderboardDone /\ spec.order \in {Str("asc"), Str("desc")}) =>
    /\ \A i, j \in DOMAIN result.l :
         (i < j /\ result.l[i][spec.metric.s].den = 0) => result.l[j][spec.metric.s].den = 0
    /\ Missing(result.l) # {} =>
         /\ Defined(base) \subseteq Defined(result.l)
         /\ Cardinality(Defined(base)) < spec.top_n.n

\* a descending leaderboard that returned the teams with a value first and a
\* team without one last
C24_Witness ==
  /\ LeaderboardDone
  /\ spec.order = Str("desc")
  /\ Len(result.l) >= 3
  /\ result.l[1][spec.metric.s].den # 0
  /\ result.l[Len(result.l)][spec.metric.s].den = 0

\* the explanation has the part p
HasPart(p) == \E i \in DOMAIN explanation : explanation[i] = p

\* the note on how the rating-family metrics are computed
RatingsNote == <<"Ratings computed from opponent-paired games using estimated possessions.">>

\* the parts every explanation has, and the details of its chart type
StatesTheQuery ==
  /\ HasPart(<<"Chart type", spec.chart_type>>)
  /\ HasPart(<<"Entity", spec.entity>>)
  /\ HasPart(<<"Window", spec.window>>)
  /\ spec.chart_type = "leaderboard" =>
       HasPart(<<"Metric", spec.metric, "sorted", spec.order, "top_n", spec.top_n>>)
  /\ spec.chart_type = "scatter" => HasPart(<<"X", spec.x_metric, "Y", spec.y_metric>>)
  /\ spec.chart_type = "compare" => HasPart(<<"Teams", spec.teams.l>>)
  /\ HasPart(<<"NET_RTG = ORtg - DRtg">>)
       <=> (spec.chart_type = "leaderboard" /\ spec.metric = Str("NET_RTG"))

\* C25 as claimed: for every valid spec, the explanation run_query built
\* states the chart type, the entity, the window and the chart-specific
\* details, has the NET_RTG note exactly for a NET_RTG leaderboard, and has
\* the note on the rating-family metrics.
C25_ExplanationComplete ==
  pc \in {"validated", "aggregated", "done"} => (StatesTheQuery /\ HasPart(RatingsNote))

\* the dictionary under way is what the rule-based parser gives for a DRtg
\* leaderboard question without a worst/bottom/lowest keyword
NoDirectionDRtgQuestion ==
  \E q \in UserQuestions :
    /\ q.chart_type = "leaderboard" /\ q.metric = "DRtg" /\ ~q.worst /\ ~q.out_of_scope
    /\ d = [rule_based_parser_with_validation(q) EXCEPT !.season = Absent]

\* C26 as claimed: the spec built from the rule-based parser's dictionary
\* for a DRtg question that states no direction has the order
\* spec_from_dict gives the same dictionary without 'order', and an order
\* in the dictionary is the order of the spec.
C26_UniformDefaultOrder ==
  (pc \in {"built", "validated", "aggregated", "done"} /\ d # PyNone
     /\ spec.chart_type = "leaderboard") =>
    /\ NoDirectionDRtgQuestion => spec.order = spec_from_dict([d EXCEPT !.order = Absent]).val.order
    /\ d.order # Absent => spec.order = d.order

\* the validation parse_natural_language_query runs on a QUERY answer
\* (_validate_query_spec) ended with a ValueError
ValidationFailed(r) ==
  LET v == validate_query_spec(r) IN v.ok /\ v.val # PyNone

\* that validation raised an exception that is not a ValueError
ValidationRaised(r) == ~validate_query_spec(r).ok

\* the call of parse_natural_language_query under way
TheCall == CHOOSE c \in past : TRUE

C28_BadOrderRejected ==
  (pc \in {"validated", "aggregated", "done"} /\ spec.chart_type = "leaderboard")
    => spec.order \in {Str("asc"), Str("desc")}

\* the session state holds the result of some query
HasResult == session.query_dict # Absent

\* none of the five result keys is set
NoResult ==
  /\ session.result_df = Absent
  /\ session.spec = Absent
  /\ session.explanation = Absent
  /\ session.selected_season = Absent

\* the five result keys are what one successful query on the stored season
\* and dictionary gives
FromOneQuery ==
  LET out == spec_from_dict(session.query_dict)
      rq  == run_query(SeasonData(session.selected_season.s), session.spec)
  IN /\ out.ok
     /\ session.spec = out.val
     /\ rq.ok
     /\ session.result_df = rq.result
     /\ session.explanation = rq.explanation

\* the query that has just returned is the one in the session state
HoldsThisQuery ==
  /\ session.query_dict = d
  /\ session.spec = spec
  /\ session.result_df = result
  /\ session.explanation = explanation
  /\ session.selected_season = SeasonUsed(call.requested_season, call.current_season)

SessionConsistent ==
  /\ IF HasResult THEN FromOneQuery ELSE NoResult
  /\ session.query_ran = PyBool(TRUE) => (session.error = PyNone /\ HasResult)
  /\ (pc = "returned" /\ ~err.ok) =>
       (session.query_ran = PyBool(FALSE) /\ session.error = Str(err.msg))
  /\ (pc = "returned" /\ result # PyNone) =>
       (session.query_ran = PyBool(TRUE) /\ HoldsThisQuery)

\* only a query that ran to its end touches the five result keys
OnlySuccessStores ==
  pc # "done" =>
    /\ session'.query_dict = session.query_dict
    /\ session'.spec = session.spec
    /\ session'.result_df = session.result_df
    /\ session'.explanation = session.explanation
    /\ session'.selected_season = session.selected_season

\* C29: after any sequence of successful and failed queries in the AI app,
\* query_ran true means error is None and result_df, spec, explanation,
\* query_dict and selected_season are those of the most recent successful
\* query; a failed query sets query_ran false and error to its message and
\* leaves the five result keys as they were.
C29_SessionStateConsistent == []SessionConsistent /\ [][OnlySuccessStores]_vars

\* a query has failed after an earlier one succeeded: the earlier result is
\* still in the session state, next to the failure's message
C29_Witness ==
  /\ pc = "returned"
  /\ ~err.ok
  /\ HasResult
  /\ session.query_dict # d
  /\ session.query_ran = PyBool(FALSE)
  /\ session.error = Str(err.msg)

\* C30: execute_ai_query returns success=True only when the query ran
\* (query_ran true and error None afterwards); a failed construction,
\* validation or execution, or an unavailable season, returns success=False
\* with a message.
C30_SuccessReportedTruthfully ==
  pc = "returned" =>
    /\ call.returned.success =>
         (session.query_ran = PyBool(TRUE) /\ session.error = PyNone)
    /\ ~err.ok => (~call.returned.success /\ call.returned.error # PyNone)
    /\ (Truthy(call.requested_season) /\ call.requested_season.s \notin AvailableSeasons) =>
         (~call.returned.success /\ call.returned.error # PyNone)

====
